---- MODULE Spec2Model ----
(***************************************************************************)
(* A model of the sdploy-dns forwarding resolver: the request handler,     *)
(* the response cache, the request coalescer, the policy store (deny list  *)
(* and overrides) and the upstream forwarder.                              *)
(*                                                                         *)
(* Strings are sequences of one-character strings.  Instants are whole     *)
(* seconds.  A DNS message is a record; its field obj is the identity of   *)
(* the Go object behind the *dns.Msg pointer, so that two holders of the   *)
(* same pointer can be told from two holders of equal copies.              *)
(***************************************************************************)
EXTENDS Integers, Sequences, FiniteSets, TLC

VARIABLES
    config,           \* [CacheTTL, NegativeCacheTTL]          (logger.go:62-63)
    maxCacheSize,     \* DNSServer.maxCacheSize                (logger.go:117)
    nameservers,      \* DNSServer.nameservers: Seq of protocols
    blocked,          \* DNSServer.blocked: name -> BlockEntry
    overwrites,       \* DNSServer.overwrites: name -> OverwriteEntry
    cache,            \* DNSServer.cache: key -> CacheEntry
    pendingRequests,  \* DNSServer.pendingRequests: key -> entry (named by its creator)
    waiters,          \* PendingRequest.waiters of the entry created by handler i
    chan,             \* responseChan of handler i (capacity 1)
    nameserverIdx,    \* DNSServer.nameserverIdx
    domainCache,      \* the interning map of normalizeDomain
    now,              \* time.Now(), in seconds
    pc,               \* position of handler i
    req,              \* the query r and the client address of handler i
    resp,             \* the handler's local resp / cachedResp pointer
    pend,             \* the handler's local pending pointer
    wl,               \* the leader's local copy of the waiter list
    deadline,         \* the instant at which a follower's time.After fires
    replies,          \* messages written to the client of handler i
    src,              \* where the reply of handler i came from
    fetched,          \* handler i has invoked forwardDirectInternal
    flightOf,         \* the entry a follower enqueued itself on
    blockedAtStart,   \* isBlocked(name, client) when handler i was invoked
    overAtStart,      \* getOverwrite(name, client) found an entry when i was invoked
    dropped,          \* keys whose stored outcome was lost or never stored
    pin,              \* inputs of the function-level specifications
    pout,             \* results of the function-level specifications
    idxValueOf,       \* forwardDirectInternal's local idxValue of forwarder i
    started,          \* the starting indexes chosen, in the order of the counter
    held,             \* the locks each task holds
    prog              \* the lock operations each task has still to perform

vars == <<config, maxCacheSize, nameservers, blocked, overwrites, cache,
          pendingRequests, waiters, chan, nameserverIdx, domainCache, now,
          pc, req, resp, pend, wl, deadline, replies, src, fetched, flightOf,
          blockedAtStart, overAtStart, dropped, pin, pout,
          idxValueOf, started, held, prog>>

----------------------------------------------------------------------------
(* Bounds of the model *)

NReq == 2
MaxTime == 15
TickStep == 5
MaxLen == 5
MaxOps == 2
MaxForwards == 9

MaxIPs == 3

(* Program constants *)

FollowerTimeout == 10
OverwriteTTL == 300
TypeA == 1
ClassINET == 1
RcodeSuccess == 0
RcodeServerFailure == 2
RcodeNameError == 3
RcodeNotImplemented == 4
RcodeRefused == 5
InternLimit == 256

----------------------------------------------------------------------------
(* Generic helpers *)

(* nil pointers: a nil *dns.Msg, a nil net.IP, a nil *BlockEntry, a nil
   *PendingRequest *)
NoMsg == [obj |-> <<"nil", 0>>]

NoIP == 0 - 1

NoRestrictions == [nil |-> TRUE]

NoEntry == 0 * 1

EmptyMap == [k \in {} |-> NoMsg]

MapPut(m, k, v) == [x \in DOMAIN m \cup {k} |-> IF x = k THEN v ELSE m[x]]

MapDel(m, k) == [x \in DOMAIN m \ {k} |-> m[x]]

Min(a, b) == IF a < b THEN a ELSE b

RECURSIVE Pow2(_)
Pow2(n) == IF n = 0 THEN 1 ELSE 2 * Pow2(n - 1)

----------------------------------------------------------------------------
(* Strings *)

ToLowerChar(c) ==
    CASE c = "A" -> "a"
      [] c = "B" -> "b"
      [] OTHER -> c

ToLower(s) == [i \in 1..Len(s) |-> ToLowerChar(s[i])]

IsSpace(c) == c = " "

RECURSIVE TrimLeft(_)
TrimLeft(s) ==
    IF Len(s) > 0 /\ IsSpace(s[1]) THEN TrimLeft(Tail(s)) ELSE s

RECURSIVE TrimRight(_)
TrimRight(s) ==
    IF Len(s) > 0 /\ IsSpace(s[Len(s)])
    THEN TrimRight(SubSeq(s, 1, Len(s) - 1))
    ELSE s

TrimSpace(s) == TrimRight(TrimLeft(s))

TrimSuffixDot(s) ==
    IF Len(s) > 0 /\ s[Len(s)] = "." THEN SubSeq(s, 1, Len(s) - 1) ELSE s

(* strings.ToLower, strings.TrimSpace, strings.TrimSuffix(".") *)
Normalized(domain) == TrimSuffixDot(TrimSpace(ToLower(domain)))

(* normalizeDomain: the value returned with interning map dc *)
normalizeDomain(dc, domain) ==
    IF domain \in DOMAIN dc THEN dc[domain] ELSE Normalized(domain)

(* normalizeDomain: the interning map after the call *)
Intern(dc, domain) ==
    IF domain \in DOMAIN dc THEN dc
    ELSE LET normalized == Normalized(domain)
         IN  IF Len(normalized) < InternLimit
             THEN LET d1 == MapPut(dc, domain, normalized)
                  IN  IF normalized # domain
                      THEN MapPut(d1, normalized, normalized)
                      ELSE d1
             ELSE dc

RECURSIVE InternAll(_, _)
InternAll(dc, names) ==
    IF names = <<>> THEN dc
    ELSE InternAll(Intern(dc, Head(names)), Tail(names))

(* fmt "%d" of a number below 100 *)
Digit(n) == <<"0", "1", "2", "3", "4", "5", "6", "7", "8", "9">>[n + 1]

Decimal(n) == IF n < 10 THEN <<Digit(n)>> ELSE <<Digit(n \div 10), Digit(n % 10)>>

----------------------------------------------------------------------------
(* DNS messages *)

Question(name, qtype, qclass) == [Name |-> name, Qtype |-> qtype, Qclass |-> qclass]

RR(type, ttl, minttl, data) == [Type |-> type, Ttl |-> ttl, Minttl |-> minttl, Data |-> data]

Msg(obj, id, question, rd, cd, aa, tc, rcode, answer, ns) ==
    [obj |-> obj, Id |-> id, Question |-> question, RecursionDesired |-> rd,
     CheckingDisabled |-> cd, Authoritative |-> aa, Truncated |-> tc,
     Rcode |-> rcode, Answer |-> answer, Ns |-> ns]

(* dns.Msg.Copy: a deep copy, a new object o *)
Copy(m, o) == [m EXCEPT !.obj = o]

(* new(dns.Msg); msg.SetReply(r) *)
SetReply(r, o) ==
    Msg(o, r.Id,
        IF Len(r.Question) > 0 THEN <<r.Question[1]>> ELSE <<>>,
        r.RecursionDesired, r.CheckingDisabled, FALSE, FALSE, RcodeSuccess, <<>>, <<>>)

(* A synthesized name error that leaves the AA bit clear *)
createNXDOMAINResponseNotAuthoritative(r, o) ==
    [SetReply(r, o) EXCEPT !.Rcode = RcodeNameError]

createNXDOMAINResponse(r, o) ==
    [SetReply(r, o) EXCEPT !.Authoritative = TRUE, !.Rcode = RcodeNameError]

sendErrorResponse(r, rcode) ==
    [SetReply(r, <<"err", r.Id>>) EXCEPT !.Rcode = rcode]

(* A write through pointer o of Id and Question, seen by a holder m *)
Written(m, o, id, question) ==
    IF m # NoMsg /\ m.obj = o THEN [m EXCEPT !.Id = id, !.Question = question] ELSE m

Content(m) == [Rcode |-> m.Rcode, Answer |-> m.Answer, Ns |-> m.Ns]

----------------------------------------------------------------------------
(* Response cache (cache.go) *)

TTLBits == 4

maxUint32 == Pow2(TTLBits) - 1

(* Fault: a key made of the name alone *)
getCacheKeyNameOnly(dc, r) ==
    IF Len(r.Question) = 0 THEN <<>>
    ELSE normalizeDomain(dc, r.Question[1].Name)

getCacheKey(dc, r) ==
    IF Len(r.Question) = 0 THEN <<>>
    ELSE LET q == r.Question[1]
         IN  normalizeDomain(dc, q.Name) \o <<":">> \o Decimal(q.Qtype)
                 \o <<":">> \o Decimal(q.Qclass)

(* The message a hit hands out: a copy (object o) of the stored message,
   rewritten to the request's ID, question, RD and CD. *)
CachedCopy(entry, r, o) ==
    [Copy(entry.Message, o) EXCEPT !.Id = r.Id,
                                   !.Question = r.Question,
                                   !.RecursionDesired = r.RecursionDesired,
                                   !.CheckingDisabled = r.CheckingDisabled]

(* A lookup that serves the cache only when both lifetimes are set *)
getCachedResponseBothEnabled(c, dc, cfg, t, r, o) ==
    IF cfg.CacheTTL <= 0 \/ cfg.NegativeCacheTTL <= 0 THEN NoMsg
    ELSE LET key == getCacheKey(dc, r)
         IN  IF key = <<>> THEN NoMsg
             ELSE IF key \notin DOMAIN c THEN NoMsg
             ELSE IF t > c[key].ExpiresAt THEN NoMsg
             ELSE CachedCopy(c[key], r, o)

getCachedResponse(c, dc, cfg, t, r, o) ==
    IF cfg.CacheTTL <= 0 /\ cfg.NegativeCacheTTL <= 0 THEN NoMsg
    ELSE LET key == getCacheKey(dc, r)
         IN  IF key = <<>> THEN NoMsg
             ELSE IF key \notin DOMAIN c THEN NoMsg
             ELSE IF t > c[key].ExpiresAt THEN NoMsg
             ELSE CachedCopy(c[key], r, o)

isNegativeResponse(m) ==
    IF m = NoMsg THEN FALSE
    ELSE \/ m.Rcode = RcodeNameError
         \/ m.Rcode = RcodeServerFailure
         \/ m.Rcode = RcodeRefused
         \/ m.Rcode = RcodeNotImplemented
         \/ (m.Rcode = RcodeSuccess /\ Len(m.Answer) = 0)

validateResponse(dc, r, m) ==
    IF r = NoMsg \/ m = NoMsg THEN FALSE
    ELSE IF Len(m.Question) = 0 \/ Len(r.Question) = 0 THEN FALSE
    ELSE LET reqQ  == normalizeDomain(dc, r.Question[1].Name)
             respQ == normalizeDomain(Intern(dc, r.Question[1].Name), m.Question[1].Name)
         IN  /\ reqQ = respQ
             /\ r.Question[1].Qtype = m.Question[1].Qtype
             /\ r.Question[1].Qclass = m.Question[1].Qclass

(* The entries a full cache may lose: the map iteration order is unspecified,
   so any entry with the smallest ExpiresAt may be the one found first. *)
OldestKeys(c) ==
    {k \in DOMAIN c : \A k2 \in DOMAIN c : ~(c[k2].ExpiresAt < c[k].ExpiresAt)}

(* evictOldestCacheEntry: the caches it may leave *)
evictOldestCacheEntry(c) ==
    IF DOMAIN c = {} THEN {c} ELSE {MapDel(c, k) : k \in OldestKeys(c)}

(* time.Duration(ttl) * time.Second, in seconds.  A Duration is a signed
   64-bit count of nanoseconds, so the product wraps once ttl passes about
   2^33 s, twice the range of a 32-bit record TTL; here it is a signed number
   of TTLBits + 2 bits. *)
DurationSeconds(ttl) ==
    ((ttl + Pow2(TTLBits + 1)) % Pow2(TTLBits + 2)) - Pow2(TTLBits + 1)

(* A store that keeps the caller's message instead of a copy of it *)
StoreEntryShared(c, max, t, key, m, ttl, o) ==
    LET afterEvict == IF max > 0 /\ Cardinality(DOMAIN c) >= max
                      THEN evictOldestCacheEntry(c)
                      ELSE {c}
    IN  {MapPut(c2, key, [Message |-> m, ExpiresAt |-> t + DurationSeconds(ttl)]) :
              c2 \in afterEvict}

(* A store that evicts only when the cache is already over its limit *)
StoreEntryLateEvict(c, max, t, key, m, ttl, o) ==
    LET afterEvict == IF max > 0 /\ Cardinality(DOMAIN c) > max
                      THEN evictOldestCacheEntry(c)
                      ELSE {c}
    IN  {MapPut(c2, key, [Message |-> Copy(m, o), ExpiresAt |-> t + DurationSeconds(ttl)]) :
              c2 \in afterEvict}

(* The locked section of cacheNegativeResponse and cachePositiveResponse:
   the caches it may leave. *)
StoreEntry(c, max, t, key, m, ttl, o) ==
    LET afterEvict == IF max > 0 /\ Cardinality(DOMAIN c) >= max
                      THEN evictOldestCacheEntry(c)
                      ELSE {c}
    IN  {MapPut(c2, key, [Message |-> Copy(m, o), ExpiresAt |-> t + DurationSeconds(ttl)]) :
              c2 \in afterEvict}

SOAIndexes(ns) == {i \in 1..Len(ns) : ns[i].Type = "SOA"}

FirstSOA(ns) == CHOOSE i \in SOAIndexes(ns) : \A j \in SOAIndexes(ns) : i <= j

RECURSIVE AuthorityTTL(_, _, _)
AuthorityTTL(ns, i, ttl) ==
    IF i > Len(ns) THEN ttl
    ELSE AuthorityTTL(ns, i + 1,
                      IF ns[i].Ttl > 0 /\ ns[i].Ttl < ttl THEN ns[i].Ttl ELSE ttl)

(* The ttl of cacheNegativeResponse before its "too short" test *)
NegativeTTL(negativeTTL, m) ==
    IF Len(m.Ns) > 0
    THEN LET afterSOA ==
                 IF SOAIndexes(m.Ns) # {}
                 THEN LET soa == m.Ns[FirstSOA(m.Ns)]
                      IN  IF soa.Minttl > 0 /\ soa.Minttl < negativeTTL
                          THEN soa.Minttl ELSE negativeTTL
                 ELSE negativeTTL
         IN  IF afterSOA = negativeTTL
             THEN AuthorityTTL(m.Ns, 1, afterSOA)
             ELSE afterSOA
    ELSE negativeTTL

cacheNegativeResponse(c, cfg, max, t, m, key, o) ==
    IF cfg.NegativeCacheTTL <= 0 THEN {c}
    ELSE LET ttl == NegativeTTL(cfg.NegativeCacheTTL, m)
         IN  IF ttl < 1 THEN {c} ELSE StoreEntry(c, max, t, key, m, ttl, o)

RECURSIVE AnswerMinTTL(_, _, _)
AnswerMinTTL(answer, i, minTTL) ==
    IF i > Len(answer) THEN minTTL
    ELSE AnswerMinTTL(answer, i + 1,
                      IF answer[i].Ttl < minTTL THEN answer[i].Ttl ELSE minTTL)

(* The ttl of cachePositiveResponse before its "too short" test *)
PositiveTTL(cacheTTL, m) ==
    IF Len(m.Answer) > 0
    THEN LET start  == IF cacheTTL > 0 /\ cacheTTL <= maxUint32 THEN cacheTTL ELSE maxUint32
             minTTL == AnswerMinTTL(m.Answer, 1, start)
         IN  IF minTTL < maxUint32 /\ minTTL < cacheTTL THEN minTTL ELSE cacheTTL
    ELSE cacheTTL

(* A positive store that does not look at the RCODE *)
cachePositiveResponseAnyRcode(c, cfg, max, t, m, key, o) ==
    IF cfg.CacheTTL <= 0 THEN {c}
    ELSE IF Len(m.Answer) = 0 THEN {c}
    ELSE LET ttl == PositiveTTL(cfg.CacheTTL, m)
         IN  IF ttl < 1 THEN {c} ELSE StoreEntry(c, max, t, key, m, ttl, o)

cachePositiveResponse(c, cfg, max, t, m, key, o) ==
    IF cfg.CacheTTL <= 0 THEN {c}
    ELSE IF m.Rcode # RcodeSuccess \/ Len(m.Answer) = 0 THEN {c}
    ELSE LET ttl == PositiveTTL(cfg.CacheTTL, m)
         IN  IF ttl < 1 THEN {c} ELSE StoreEntry(c, max, t, key, m, ttl, o)

(* A put that stores without comparing the response's question to the
   query's *)
setCachedResponseUnvalidated(c, dc, cfg, max, t, r, m, o) ==
    IF m = NoMsg THEN {c}
    ELSE LET key == getCacheKey(dc, r)
         IN  IF key = <<>> THEN {c}
             ELSE IF isNegativeResponse(m)
                  THEN cacheNegativeResponse(c, cfg, max, t, m, key, o)
                  ELSE cachePositiveResponse(c, cfg, max, t, m, key, o)

(* setCachedResponse: the caches it may leave; the copy it stores is object o *)
setCachedResponse(c, dc, cfg, max, t, r, m, o) ==
    IF m = NoMsg THEN {c}
    ELSE LET key == getCacheKey(dc, r)
         IN  IF key = <<>> THEN {c}
             ELSE IF ~validateResponse(Intern(dc, r.Question[1].Name), r, m) THEN {c}
             ELSE IF isNegativeResponse(m)
                  THEN cacheNegativeResponse(c, cfg, max, t, m, key, o)
                  ELSE cachePositiveResponse(c, cfg, max, t, m, key, o)

(* The names setCachedResponse and getCachedResponse pass to normalizeDomain *)
NamesOf(r, m) ==
    (IF Len(r.Question) > 0 THEN <<r.Question[1].Name>> ELSE <<>>)
    \o (IF m # NoMsg /\ Len(r.Question) > 0 /\ Len(m.Question) > 0
        THEN <<m.Question[1].Name>> ELSE <<>>)

cleanupExpiredCache(c, t) ==
    [k \in {x \in DOMAIN c : ~(t > c[x].ExpiresAt)} |-> c[k]]

----------------------------------------------------------------------------
(* Policy store (blocks.go, overwrites.go) *)

IPBits == 2

AllIPs == 0..(Pow2(IPBits) - 1)

(* net.IPNet.Contains for a subnet [IP, Ones] *)
Contains(subnet, ip) ==
    (ip \div Pow2(IPBits - subnet.Ones)) = (subnet.IP \div Pow2(IPBits - subnet.Ones))

(* A predicate test that looks at the listed IPs only *)
matchesListedIPsOnly(entry, clientIP) ==
    IF entry.Subnets = {} /\ entry.IPs = {} THEN TRUE
    ELSE IF clientIP = NoIP THEN FALSE
    ELSE \E ip \in entry.IPs : ip = clientIP

matchesBlockEntry(entry, clientIP) ==
    IF entry.Subnets = {} /\ entry.IPs = {} THEN TRUE
    ELSE IF clientIP = NoIP THEN FALSE
    ELSE IF \E ip \in entry.IPs : ip = clientIP THEN TRUE
    ELSE IF \E subnet \in entry.Subnets : Contains(subnet, clientIP) THEN TRUE
    ELSE FALSE

(* The loop of isBlocked over the positions i..len(domain) (1-based) *)
RECURSIVE ParentBlocked(_, _, _, _)
ParentBlocked(bl, domain, clientIP, i) ==
    IF i > Len(domain) THEN FALSE
    ELSE IF /\ domain[i] = "."
            /\ i + 1 <= Len(domain)
            /\ SubSeq(domain, i + 1, Len(domain)) \in DOMAIN bl
            /\ matchesBlockEntry(bl[SubSeq(domain, i + 1, Len(domain))], clientIP)
         THEN TRUE
         ELSE ParentBlocked(bl, domain, clientIP, i + 1)

(* A deny lookup that cuts the name at every position, not only after a dot *)
isBlockedAnySuffix(bl, domain, clientIP) ==
    \E i \in 1..(Len(domain) + 1) :
        /\ SubSeq(domain, i, Len(domain)) \in DOMAIN bl
        /\ (i = 1 \/ i <= Len(domain))
        /\ matchesBlockEntry(bl[SubSeq(domain, i, Len(domain))], clientIP)

isBlocked(bl, domain, clientIP) ==
    IF domain \in DOMAIN bl /\ matchesBlockEntry(bl[domain], clientIP) THEN TRUE
    ELSE ParentBlocked(bl, domain, clientIP, 1)

(* The predicate test of getOverwrite (overwrites.go:16-38) *)
OverwriteMatches(entry, clientIP) ==
    IF entry.Subnets = {} /\ entry.IPs = {} THEN TRUE
    ELSE IF clientIP # NoIP
            /\ (\/ \E ip \in entry.IPs : ip = clientIP
                \/ \E subnet \in entry.Subnets : Contains(subnet, clientIP))
         THEN TRUE
         ELSE FALSE

(* getOverwrite: <<ip, exists>> *)
getOverwrite(ow, domain, clientIP) ==
    IF domain \notin DOMAIN ow THEN <<"", FALSE>>
    ELSE IF OverwriteMatches(ow[domain], clientIP) THEN <<ow[domain].IP, TRUE>>
    ELSE <<"", FALSE>>

(* addBlockedDomain: the deny map after the call *)
addBlockedDomain(bl, dc, domain, restrictions) ==
    MapPut(bl, normalizeDomain(dc, domain),
           IF restrictions # NoRestrictions
           THEN [Subnets |-> restrictions.Subnets, IPs |-> restrictions.IPs]
           ELSE [Subnets |-> {}, IPs |-> {}])

----------------------------------------------------------------------------
(* Upstream forwarder (forward.go) *)

isTCPBasedProtocol(protocol) ==
    protocol = "tcp" \/ protocol = "dot" \/ protocol = "doh"

(* A retry that falls back on the truncated message when TCP gives nothing *)
handleTruncatedResponseKeepFirst(dc, r, out) ==
    IF ~out.tcpErr /\ out.tcpResp # NoMsg /\ validateResponse(dc, r, out.tcpResp)
    THEN out.tcpResp
    ELSE out.resp

(* out is what the network does for one endpoint: the result of the protocol
   handler (err, resp) and of a TCP retry (tcpErr, tcpResp). *)
handleTruncatedResponse(dc, r, out) ==
    IF ~out.tcpErr /\ out.tcpResp # NoMsg /\ validateResponse(dc, r, out.tcpResp)
    THEN out.tcpResp
    ELSE NoMsg

(* An attempt that takes the endpoint's message without validating it *)
tryForwardToNameserverUnvalidated(dc, r, protocol, out) ==
    IF out.err THEN NoMsg
    ELSE IF out.resp # NoMsg /\ out.resp.Truncated /\ ~isTCPBasedProtocol(protocol)
         THEN handleTruncatedResponse(dc, r, out)
         ELSE out.resp

tryForwardToNameserver(dc, r, protocol, out) ==
    IF out.err THEN NoMsg
    ELSE IF out.resp # NoMsg /\ ~validateResponse(dc, r, out.resp) THEN NoMsg
    ELSE IF out.resp # NoMsg /\ out.resp.Truncated /\ ~isTCPBasedProtocol(protocol)
         THEN handleTruncatedResponse(dc, r, out)
         ELSE out.resp

(* The loop of forwardDirectInternal from its i-th iteration (i = 0, 1, ...) *)
RECURSIVE TryFrom(_, _, _, _, _, _)
TryFrom(dc, ns, r, outs, startIdx, i) ==
    IF i >= Len(ns) THEN NoMsg
    ELSE LET idx == (startIdx + i) % Len(ns)
             m   == tryForwardToNameserver(dc, r, ns[idx + 1], outs[idx + 1])
         IN  IF m # NoMsg THEN m ELSE TryFrom(dc, ns, r, outs, startIdx, i + 1)

(* The endpoints (0-based) the loop of forwardDirectInternal contacts from
   its i-th iteration on, in the order of contact *)
RECURSIVE ContactedFrom(_, _, _, _, _, _)
ContactedFrom(dc, ns, r, outs, startIdx, i) ==
    IF i >= Len(ns) THEN <<>>
    ELSE LET idx == (startIdx + i) % Len(ns)
             m   == tryForwardToNameserver(dc, r, ns[idx + 1], outs[idx + 1])
         IN  <<idx>> \o (IF m # NoMsg THEN <<>>
                         ELSE ContactedFrom(dc, ns, r, outs, startIdx, i + 1))

(* An add that returns the counter as it was and adds nothing *)
AddUint64Stale(v, delta) == v

(* atomic.AddUint64: the new value of the counter, which is also the value
   returned.  The counter has 64 bits; the runs of the model end long before
   it wraps. *)
AddUint64(v, delta) == v + delta

(* startIdx := int(idxValue % nsCount) *)
startIdx(ns, idxValue) == idxValue % Len(ns)

(* forwardDirectInternal, with idxValue the counter value the atomic add gave *)
forwardDirectInternal(dc, ns, idxValue, r, outs) ==
    IF Len(ns) = 0 THEN NoMsg
    ELSE TryFrom(dc, ns, r, outs, startIdx(ns, idxValue), 0)

(* A sendResponse that writes the message as it was handed over, without
   stamping the request's ID and question *)
sendResponseUnstamped(r, m) ==
    IF m # NoMsg THEN m ELSE sendErrorResponse(r, RcodeServerFailure)

(* sendResponse: the message written to the client *)
sendResponse(r, m) ==
    IF m # NoMsg
    THEN [m EXCEPT !.Id = r.Id, !.Question = r.Question]
    ELSE sendErrorResponse(r, RcodeServerFailure)

Closed == [obj |-> <<"closed", 0>>]

(* notifyWaiters: the channels after the loop over the waiter list ws *)
RECURSIVE notifyWaiters(_, _, _, _)
notifyWaiters(ch, ws, m, r) ==
    IF ws = <<>> THEN ch
    ELSE LET j        == Head(ws)
             respCopy == [Copy(m, <<"ntf", j>>) EXCEPT !.Id = r.Id,
                                                       !.Question = r.Question]
             ch2      == IF m # NoMsg
                         THEN IF ch[j] = NoMsg THEN [ch EXCEPT ![j] = respCopy] ELSE ch
                         ELSE [ch EXCEPT ![j] = Closed]
         IN  notifyWaiters(ch2, Tail(ws), m, r)

(* cleanupStalePendingRequests: the registry after the sweep *)
cleanupStalePendingRequests(pr, ws) ==
    [k \in {x \in DOMAIN pr : Len(ws[pr[x]]) # 0} |-> pr[k]]

----------------------------------------------------------------------------
(* The resolver: request handlers, sweepers, block-list refresh, the clock *)

Handlers == 1..NReq

(* The goroutines that take locks: the request handlers, the two sweepers and
   the block-list refresh *)
PendingSweeper == NReq + 1

CacheSweeper == NReq + 2

Refresher == NReq + 3

Tasks == 1..(NReq + 3)

NameAB == <<"a", ".", "b", ".">>
NameAB2 == <<"A", ".", "b", ".">>
NameO == <<"o", ".">>

(* The queries that arrive: <<name, client>>.  Client 1 is the one the deny
   and override predicates name; the two spellings of a.b share a fingerprint. *)
Requests == {<<NameAB, 2>>, <<NameAB2, 1>>, <<NameO, 1>>, <<NameO, 2>>}

MainConfigs ==
    {[CacheTTL |-> 7, NegativeCacheTTL |-> 7],
     [CacheTTL |-> 0, NegativeCacheTTL |-> 7]}

MainNameservers == {<<>>, <<"udp">>}

MainOverwrites ==
    [k \in {<<"o">>} |-> [IP |-> "v4", IPs |-> {1}, Subnets |-> {}]]

ReloadNames == {<<"b">>}

ReloadRestrictions == {[IPs |-> {1}, Subnets |-> {}]}

(* The query of handler i *)
Query(i, name) ==
    Msg(<<"q", i>>, i, <<Question(name, TypeA, ClassINET)>>, TRUE, FALSE,
        FALSE, FALSE, RcodeSuccess, <<>>, <<>>)

(* What an upstream may answer to r *)
UpAnswer(r, o) ==
    Msg(o, r.Id, <<Question(ToLower(r.Question[1].Name), TypeA, ClassINET)>>,
        TRUE, FALSE, FALSE, FALSE, RcodeSuccess, <<RR("A", 3, 0, "up")>>, <<>>)

UpNXDomain(r, o) ==
    Msg(o, r.Id, <<Question(ToLower(r.Question[1].Name), TypeA, ClassINET)>>,
        TRUE, FALSE, FALSE, FALSE, RcodeNameError, <<>>, <<RR("SOA", 7, 6, "soa")>>)

NoRetry(err, m) == [err |-> err, resp |-> m, tcpErr |-> TRUE, tcpResp |-> NoMsg]

MainOutcomes(r, o) ==
    {NoRetry(TRUE, NoMsg), NoRetry(FALSE, UpAnswer(r, o)), NoRetry(FALSE, UpNXDomain(r, o))}

KeyOf(i) == getCacheKey(domainCache, req[i].r)

(* dns.NewRR("<name> 300 IN A <ip>") fails unless ip is an IPv4 address *)
NewRROk(ip) == ip = "v4"

(* A write of Id and Question through pointer o, as the cache and the channels
   see it *)
WrittenCache(c, o, id, question) ==
    [k \in DOMAIN c |-> [c[k] EXCEPT !.Message = Written(@, o, id, question)]]

WrittenChans(ch, o, id, question) ==
    [j \in DOMAIN ch |-> Written(ch[j], o, id, question)]

(* Keys whose outcome is not (or no longer) in cache c2 *)
Lost(c, c2, t) ==
    (DOMAIN c \ DOMAIN c2) \cup {k \in DOMAIN c2 : t > c2[k].ExpiresAt}

(* No call of a store's operation made yet *)
NoOp == [op |-> "none"]

(* The state after createDNSServerInstance with the overwrites ow, but for the
   configuration *)
InitServerWith(ow) ==
    /\ blocked = EmptyMap
    /\ overwrites = ow
    /\ cache = EmptyMap
    /\ pendingRequests = EmptyMap
    /\ waiters = [i \in Handlers |-> <<>>]
    /\ chan = [i \in Handlers |-> NoMsg]
    /\ nameserverIdx = 0
    /\ domainCache = EmptyMap
    /\ now = 0
    /\ pc = [i \in Handlers |-> "idle"]
    /\ req = [i \in Handlers |-> [r |-> NoMsg, clientIP |-> NoIP]]
    /\ resp = [i \in Handlers |-> NoMsg]
    /\ pend = [i \in Handlers |-> NoEntry]
    /\ wl = [i \in Handlers |-> <<>>]
    /\ deadline = [i \in Handlers |-> 0]
    /\ replies = [i \in Handlers |-> <<>>]
    /\ src = [i \in Handlers |-> "none"]
    /\ fetched = [i \in Handlers |-> FALSE]
    /\ flightOf = [i \in Handlers |-> NoEntry]
    /\ blockedAtStart = [i \in Handlers |-> FALSE]
    /\ overAtStart = [i \in Handlers |-> FALSE]
    /\ dropped = {}
    /\ pout = NoOp
    /\ idxValueOf = [i \in Handlers |-> 0]
    /\ started = <<>>
    /\ held = [t \in Tasks |-> {}]
    /\ prog = [t \in Tasks |-> <<>>]

InitServer == InitServerWith(MainOverwrites)

Init ==
    /\ InitServer
    /\ config \in MainConfigs
    /\ maxCacheSize = 0
    /\ nameservers \in MainNameservers
    /\ pin = NoOp

(* w.WriteMsg returns an error for the clients named in pin.fail; no other
   specification than SpecWrite names any *)
WriteFails(i) == pin.op = "writes" /\ i \in pin.fail

(* What a client has got of a write that failed *)
WriteError == [obj |-> <<"err", 0>>]

WriteMsg(i, m) == IF WriteFails(i) THEN WriteError ELSE m

(* Fault: sendResponse's caller returns when the write failed *)
sendResponseReturnsOnError(err) == ~err

(* sendResponse, lines 264-266: the error of w.WriteMsg is logged and the
   caller goes on *)
sendResponseGoesOn(err) == TRUE

(* Handler i writes message m to its client and returns *)
Reply(i, m, from) ==
    /\ replies' = [replies EXCEPT ![i] = Append(@, WriteMsg(i, m))]
    /\ src' = [src EXCEPT ![i] = from]
    /\ pc' = [pc EXCEPT ![i] = "done"]

(* A channel nobody will read any more is garbage *)
Collected(ch, p) == [j \in DOMAIN ch |-> IF p[j] = "done" THEN NoMsg ELSE ch[j]]

(* handleDNSRequest, lines 10-20: a query arrives and is looked up in the cache *)
HandleStart(i, name, clientIP) ==
    /\ pc[i] = "idle"
    /\ IF i = 1 THEN TRUE ELSE pc[i - 1] # "idle"
    /\ now + FollowerTimeout <= MaxTime
    /\ LET r          == Query(i, name)
           cachedResp == getCachedResponse(cache, domainCache, config, now, r, <<"hit", i>>)
           dc         == Intern(domainCache, name)
           domain     == normalizeDomain(dc, name)
       IN  /\ req' = [req EXCEPT ![i] = [r |-> r, clientIP |-> clientIP]]
           /\ domainCache' = dc
           /\ blockedAtStart' = [blockedAtStart EXCEPT ![i] = isBlocked(blocked, domain, clientIP)]
           /\ overAtStart' = [overAtStart EXCEPT ![i] = getOverwrite(overwrites, domain, clientIP)[2]]
           /\ IF cachedResp # NoMsg
              THEN Reply(i, cachedResp, "cache")
              ELSE /\ pc' = [pc EXCEPT ![i] = "policy"]
                   /\ UNCHANGED <<replies, src,
                                  idxValueOf, started, held, prog>>
    /\ UNCHANGED <<config, maxCacheSize, nameservers, blocked, overwrites, cache,
                   pendingRequests, waiters, chan, nameserverIdx, now, resp, pend, wl,
                   deadline, fetched, flightOf, dropped, pin, pout,
                   idxValueOf, started, held, prog>>

(* handleDNSRequest, lines 22-57: deny list, then override, else
   forwardRequest, lines 113-124: no endpoints, or the second cache lookup *)
Policy(i) ==
    /\ pc[i] = "policy"
    /\ LET r          == req[i].r
           domain     == normalizeDomain(domainCache, r.Question[1].Name)
           ow         == getOverwrite(overwrites, domain, req[i].clientIP)
           cachedResp == getCachedResponse(cache, domainCache, config, now, r, <<"hit", i>>)
       IN  IF isBlocked(blocked, domain, req[i].clientIP)
           THEN Reply(i, createNXDOMAINResponse(r, <<"blk", i>>), "block")
           ELSE IF ow[2] /\ NewRROk(ow[1])
           THEN Reply(i, [SetReply(r, <<"ovr", i>>) EXCEPT
                              !.Authoritative = TRUE,
                              !.Answer = <<RR("A", OverwriteTTL, 0, ow[1])>>],
                      "overwrite")
           ELSE IF Len(nameservers) = 0
           THEN Reply(i, sendErrorResponse(r, RcodeServerFailure), "servfail")
           ELSE IF cachedResp # NoMsg
           THEN Reply(i, cachedResp, "cache")
           ELSE /\ pc' = [pc EXCEPT ![i] = "begin"]
                /\ UNCHANGED <<replies, src,
                               idxValueOf, started, held, prog>>
    /\ UNCHANGED <<config, maxCacheSize, nameservers, blocked, overwrites, cache,
                   pendingRequests, waiters, chan, nameserverIdx, domainCache, now,
                   req, resp, pend, wl, deadline, fetched, flightOf,
                   blockedAtStart, overAtStart, dropped, pin, pout,
                   idxValueOf, started, held, prog>>

(* forwardRequest, lines 126-151: under pendingMu, create the entry or find it *)
Begin(i) ==
    /\ pc[i] = "begin"
    /\ LET key == KeyOf(i)
       IN  IF key \notin DOMAIN pendingRequests
           THEN /\ pendingRequests' = MapPut(pendingRequests, key, i)
                /\ waiters' = [waiters EXCEPT ![i] = <<>>]
                /\ pend' = [pend EXCEPT ![i] = i]
                /\ pc' = [pc EXCEPT ![i] = "lfetch"]
           ELSE /\ pend' = [pend EXCEPT ![i] = pendingRequests[key]]
                /\ pc' = [pc EXCEPT ![i] = "wappend"]
                /\ UNCHANGED <<pendingRequests, waiters,
                               idxValueOf, started, held, prog>>
    /\ UNCHANGED <<config, maxCacheSize, nameservers, blocked, overwrites, cache,
                   chan, nameserverIdx, domainCache, now, req, resp, wl, deadline,
                   replies, src, fetched, flightOf, blockedAtStart, overAtStart,
                   dropped, pin, pout,
                   idxValueOf, started, held, prog>>

(* handleFirstRequest, lines 155-181: the leader's cache lookup and, on a miss,
   the upstream exchange *)
LeaderFetch(i) ==
    /\ pc[i] = "lfetch"
    /\ LET r          == req[i].r
           cachedResp == getCachedResponse(cache, domainCache, config, now, r, <<"hit", i>>)
       IN  IF cachedResp # NoMsg
           THEN /\ resp' = [resp EXCEPT ![i] = cachedResp]
                /\ src' = [src EXCEPT ![i] = "cache"]
                /\ pc' = [pc EXCEPT ![i] = "lsend"]
                /\ UNCHANGED <<nameserverIdx, fetched, domainCache,
                               idxValueOf, started, held, prog>>
           ELSE /\ \E outs \in [1..Len(nameservers) -> MainOutcomes(r, <<"up", i>>)] :
                      LET m == forwardDirectInternal(domainCache, nameservers,
                                                     nameserverIdx, r, outs)
                      IN  /\ resp' = [resp EXCEPT ![i] =
                                 IF m = NoMsg THEN createNXDOMAINResponse(r, <<"nx", i>>)
                                              ELSE m]
                          /\ src' = [src EXCEPT ![i] =
                                 IF m = NoMsg THEN "synth" ELSE "upstream"]
                /\ domainCache' = InternAll(domainCache,
                                      <<r.Question[1].Name, ToLower(r.Question[1].Name)>>)
                /\ nameserverIdx' = nameserverIdx + 1
                /\ fetched' = [fetched EXCEPT ![i] = TRUE]
                /\ pc' = [pc EXCEPT ![i] = "lput"]
    /\ UNCHANGED <<config, maxCacheSize, nameservers, blocked, overwrites, cache,
                   pendingRequests, waiters, chan, now, req, pend, wl, deadline,
                   replies, flightOf, blockedAtStart, overAtStart, dropped, pin, pout,
                   idxValueOf, started, held, prog>>

(* handleFirstRequest, lines 182-190: the leader stores the outcome *)
LeaderPut(i) ==
    /\ pc[i] = "lput"
    /\ \E c2 \in setCachedResponse(cache, domainCache, config, maxCacheSize, now,
                                   req[i].r, resp[i], <<"put", i>>) :
          /\ cache' = c2
          /\ dropped' = dropped \cup Lost(cache, c2, now)
                                \cup (IF KeyOf(i) \in DOMAIN c2 THEN {} ELSE {KeyOf(i)})
    /\ domainCache' = InternAll(domainCache, NamesOf(req[i].r, resp[i]))
    /\ pc' = [pc EXCEPT ![i] = "lsend"]
    /\ UNCHANGED <<config, maxCacheSize, nameservers, blocked, overwrites,
                   pendingRequests, waiters, chan, nameserverIdx, now, req, resp,
                   pend, wl, deadline, replies, src, fetched, flightOf,
                   blockedAtStart, overAtStart, pin, pout,
                   idxValueOf, started, held, prog>>

(* handleFirstRequest, lines 158-165 and 194-203: under the entry's lock take
   the waiter list, then sendResponse and notifyWaiters *)
LeaderSend(i) ==
    /\ pc[i] = "lsend"
    /\ LET r    == req[i].r
           sent == sendResponse(r, resp[i])
           o    == resp[i].obj
           ws   == waiters[pend[i]]
           on   == sendResponseGoesOn(WriteFails(i))
       IN  /\ waiters' = [waiters EXCEPT ![pend[i]] = <<>>]
           /\ wl' = [wl EXCEPT ![i] = ws]
           /\ replies' = [replies EXCEPT ![i] = Append(@, WriteMsg(i, sent))]
           /\ resp' = [j \in Handlers |-> Written(resp[j], o, r.Id, r.Question)]
           /\ cache' = WrittenCache(cache, o, r.Id, r.Question)
           /\ chan' = Collected(notifyWaiters(WrittenChans(chan, o, r.Id, r.Question),
                                              IF on THEN ws ELSE <<>>,
                                              Written(resp[i], o, r.Id, r.Question), r),
                                pc)
           /\ pc' = [pc EXCEPT ![i] = IF on THEN "ldel" ELSE "done"]
    /\ UNCHANGED <<config, maxCacheSize, nameservers, blocked, overwrites,
                   pendingRequests, nameserverIdx, domainCache, now, req,
                   pend, deadline, src, fetched, flightOf, blockedAtStart,
                   overAtStart, dropped, pin, pout,
                   idxValueOf, started, held, prog>>

(* Fault: the leader returns without deleting the registry slot *)
LeaderDeleteSkipped(i) ==
    /\ pc[i] = "ldel"
    /\ pc' = [pc EXCEPT ![i] = "done"]
    /\ resp' = [resp EXCEPT ![i] = NoMsg]
    /\ pend' = [pend EXCEPT ![i] = NoEntry]
    /\ wl' = [wl EXCEPT ![i] = <<>>]
    /\ UNCHANGED <<config, maxCacheSize, nameservers, blocked, overwrites, cache,
                   pendingRequests, waiters, chan, nameserverIdx, domainCache, now,
                   req, deadline, replies, src, fetched, flightOf, blockedAtStart,
                   overAtStart, dropped, pin, pout,
                   idxValueOf, started, held, prog>>

(* handleFirstRequest, lines 168-170 and 206-208: delete the registry slot *)
LeaderDelete(i) ==
    /\ pc[i] = "ldel"
    /\ pendingRequests' = MapDel(pendingRequests, KeyOf(i))
    /\ pc' = [pc EXCEPT ![i] = "done"]
    /\ resp' = [resp EXCEPT ![i] = NoMsg]
    /\ pend' = [pend EXCEPT ![i] = NoEntry]
    /\ wl' = [wl EXCEPT ![i] = <<>>]
    /\ UNCHANGED <<config, maxCacheSize, nameservers, blocked, overwrites, cache,
                   waiters, chan, nameserverIdx, domainCache, now, req,
                   deadline, replies, src, fetched, flightOf, blockedAtStart,
                   overAtStart, dropped, pin, pout,
                   idxValueOf, started, held, prog>>

(* waitForPendingRequest, lines 214-217: enqueue the delivery channel *)
WaitAppend(i) ==
    /\ pc[i] = "wappend"
    /\ waiters' = [waiters EXCEPT ![pend[i]] = Append(@, i)]
    /\ deadline' = [deadline EXCEPT ![i] = now + FollowerTimeout]
    /\ flightOf' = [flightOf EXCEPT ![i] = pend[i]]
    /\ pc' = [pc EXCEPT ![i] = "wwait"]
    /\ UNCHANGED <<config, maxCacheSize, nameservers, blocked, overwrites, cache,
                   pendingRequests, chan, nameserverIdx, domainCache, now, req, resp,
                   pend, wl, replies, src, fetched, blockedAtStart, overAtStart,
                   dropped, pin, pout,
                   idxValueOf, started, held, prog>>

(* waitForPendingRequest, lines 221-222: the delivery arrives *)
WaitReceive(i) ==
    /\ pc[i] = "wwait"
    /\ chan[i] # NoMsg
    /\ LET m == IF chan[i] = Closed THEN NoMsg ELSE chan[i]
           r == req[i].r
       IN  /\ Reply(i, sendResponse(r, m), "delivered")
           /\ cache' = WrittenCache(cache, m.obj, r.Id, r.Question)
    /\ chan' = [chan EXCEPT ![i] = NoMsg]
    /\ pend' = [pend EXCEPT ![i] = NoEntry]
    /\ deadline' = [deadline EXCEPT ![i] = 0]
    /\ UNCHANGED <<config, maxCacheSize, nameservers, blocked, overwrites,
                   pendingRequests, waiters, nameserverIdx, domainCache, now, req,
                   resp, wl, fetched, flightOf, blockedAtStart,
                   overAtStart, dropped, pin, pout,
                   idxValueOf, started, held, prog>>

(* waitForPendingRequest, lines 223-228: the 10 s timer fires; look in the cache *)
WaitTimeout(i) ==
    /\ pc[i] = "wwait"
    /\ now >= deadline[i]
    /\ LET cachedResp == getCachedResponse(cache, domainCache, config, now, req[i].r,
                                           <<"hit", i>>)
       IN  IF cachedResp # NoMsg
           THEN Reply(i, sendResponse(req[i].r, cachedResp), "cache")
           ELSE /\ pc' = [pc EXCEPT ![i] = "wput"]
                /\ UNCHANGED <<replies, src,
                               idxValueOf, started, held, prog>>
    /\ chan' = [chan EXCEPT ![i] = NoMsg]
    /\ pend' = [pend EXCEPT ![i] = NoEntry]
    /\ deadline' = [deadline EXCEPT ![i] = 0]
    /\ UNCHANGED <<config, maxCacheSize, nameservers, blocked, overwrites, cache,
                   pendingRequests, waiters, nameserverIdx, domainCache, now,
                   req, resp, wl, fetched, flightOf,
                   blockedAtStart, overAtStart, dropped, pin, pout,
                   idxValueOf, started, held, prog>>

(* waitForPendingRequest, lines 229-236: synthesize NXDOMAIN, store it, send it *)
WaitPut(i) ==
    /\ pc[i] = "wput"
    /\ LET r == req[i].r
           m == createNXDOMAINResponse(r, <<"nx", i>>)
       IN  /\ \E c2 \in setCachedResponse(cache, domainCache, config, maxCacheSize, now,
                                          r, m, <<"put", i>>) :
                 /\ cache' = WrittenCache(c2, m.obj, r.Id, r.Question)
                 /\ dropped' = dropped \cup Lost(cache, c2, now)
           /\ domainCache' = InternAll(domainCache, NamesOf(r, m))
           /\ Reply(i, sendResponse(r, m), "synth")
    /\ UNCHANGED <<config, maxCacheSize, nameservers, blocked, overwrites,
                   pendingRequests, waiters, chan, nameserverIdx, now, req, resp, pend,
                   wl, deadline, fetched, flightOf, blockedAtStart, overAtStart, pin,
                   pout,
                   idxValueOf, started, held, prog>>

(* startPendingRequestCleanup: the 30 s ticker runs cleanupStalePendingRequests *)
SweepPending ==
    /\ pendingRequests' = cleanupStalePendingRequests(pendingRequests, waiters)
    /\ pendingRequests' # pendingRequests
    /\ UNCHANGED <<config, maxCacheSize, nameservers, blocked, overwrites, cache,
                   waiters, chan, nameserverIdx, domainCache, now, pc, req, resp, pend,
                   wl, deadline, replies, src, fetched, flightOf, blockedAtStart,
                   overAtStart, dropped, pin, pout,
                   idxValueOf, started, held, prog>>

(* startCacheCleanup: the 30 s ticker runs cleanupExpiredCache *)
SweepCache ==
    /\ config.CacheTTL > 0
    /\ cache' = cleanupExpiredCache(cache, now)
    /\ cache' # cache
    /\ UNCHANGED <<config, maxCacheSize, nameservers, blocked, overwrites,
                   pendingRequests, waiters, chan, nameserverIdx, domainCache, now, pc,
                   req, resp, pend, wl, deadline, replies, src, fetched, flightOf,
                   blockedAtStart, overAtStart, dropped, pin, pout,
                   idxValueOf, started, held, prog>>

(* reloadURLBlockList: a refreshed list adds a domain *)
ReloadBlock(domain, restrictions) ==
    /\ blocked' = addBlockedDomain(blocked, domainCache, domain, restrictions)
    /\ blocked' # blocked
    /\ domainCache' = Intern(domainCache, domain)
    /\ UNCHANGED <<config, maxCacheSize, nameservers, overwrites, cache,
                   pendingRequests, waiters, chan, nameserverIdx, now, pc, req, resp,
                   pend, wl, deadline, replies, src, fetched, flightOf,
                   blockedAtStart, overAtStart, dropped, pin, pout,
                   idxValueOf, started, held, prog>>

(* Time passes.  A handler that may still become a follower keeps the clock
   FollowerTimeout seconds before the end of the modelled period, so that
   every follower's timer can fire within it. *)
Busy(i) == pc[i] \in {"policy", "begin", "wappend"}

TimeLimit == IF \E i \in Handlers : Busy(i) THEN MaxTime - FollowerTimeout ELSE MaxTime

Tick ==
    /\ now < TimeLimit
    /\ now' = Min(now + TickStep, TimeLimit)
    /\ dropped' = dropped \cup Lost(cache, cache, now')
    /\ UNCHANGED <<config, maxCacheSize, nameservers, blocked, overwrites, cache,
                   pendingRequests, waiters, chan, nameserverIdx, domainCache, pc, req,
                   resp, pend, wl, deadline, replies, src, fetched, flightOf,
                   blockedAtStart, overAtStart, pin, pout,
                   idxValueOf, started, held, prog>>

Step(i) ==
    \/ \E q \in Requests : HandleStart(i, q[1], q[2])
    \/ Policy(i)
    \/ Begin(i)
    \/ LeaderFetch(i)
    \/ LeaderPut(i)
    \/ LeaderSend(i)
    \/ LeaderDelete(i)
    \/ WaitAppend(i)
    \/ WaitReceive(i)
    \/ WaitTimeout(i)
    \/ WaitPut(i)

Next ==
    \/ \E i \in Handlers : Step(i)
    \/ SweepPending
    \/ SweepCache
    \/ \E domain \in ReloadNames, restrictions \in ReloadRestrictions :
          ReloadBlock(domain, restrictions)
    \/ Tick

Spec == Init /\ [][Next]_vars

(* The steps of handler i after the arrival of its query *)
Run(i) ==
    \/ Policy(i)
    \/ Begin(i)
    \/ LeaderFetch(i)
    \/ LeaderPut(i)
    \/ LeaderSend(i)
    \/ LeaderDelete(i)
    \/ WaitAppend(i)
    \/ WaitReceive(i)
    \/ WaitTimeout(i)
    \/ WaitPut(i)

(* The specification for progress.  Every goroutine that can take a step is
   scheduled, upstream exchanges end (each has a timeout), and time passes.
   The resolver runs with both cache lifetimes set, and the queries come from
   LiveRequests. *)
LiveRequests == {<<NameAB, 2>>, <<NameAB2, 1>>, <<NameO, 1>>}

LiveInit ==
    /\ Init
    /\ config = [CacheTTL |-> 7, NegativeCacheTTL |-> 7]

LiveNext ==
    \/ \E i \in Handlers : \E q \in LiveRequests : HandleStart(i, q[1], q[2])
    \/ \E i \in Handlers : Run(i)
    \/ SweepPending
    \/ \E domain \in ReloadNames, restrictions \in ReloadRestrictions :
          ReloadBlock(domain, restrictions)
    \/ Tick

FairSpec ==
    /\ LiveInit
    /\ [][LiveNext]_vars
    /\ WF_vars(Tick)
    /\ \A i \in Handlers : WF_vars(Run(i))

----------------------------------------------------------------------------
(* Claims about the request pipeline and the coalescer *)

Leading(i) == pc[i] \in {"lfetch", "lput", "lsend", "ldel"}

Done(i) == pc[i] = "done"

(* C1: for every fingerprint at most one request is in the leader role at any
   instant, whatever the stale sweeper does. *)
C1_OneLeaderPerKey ==
    \A i, j \in Handlers :
        (i # j /\ Leading(i) /\ Leading(j)) => KeyOf(i) # KeyOf(j)

(* C2: with positive caching on, requests with the same fingerprint whose
   upstream answers are cacheable and stay in the cache cause one upstream
   forward call, not two. *)
C2_SingleFetch ==
    \A i, j \in Handlers :
        (/\ i # j
         /\ config.CacheTTL > 0
         /\ fetched[i] /\ src[i] = "upstream"
         /\ fetched[j] /\ src[j] = "upstream"
         /\ KeyOf(i) = KeyOf(j))
            => KeyOf(i) \in dropped

(* C3: a follower and the leader of the flight it enqueued on receive replies
   with the same RCODE, Answer and Authority. *)
C3_SameOutcome ==
    \A j \in Handlers :
        (Done(j) /\ flightOf[j] # NoEntry /\ Done(flightOf[j]))
            => Content(replies[j][1]) = Content(replies[flightOf[j]][1])

(* C4: every query is written exactly one reply, which carries the query's own
   ID and question, and every query that arrived is eventually answered. *)
Answered(i) == Len(replies[i]) = 1

OneOwnReply(i) ==
    /\ Len(replies[i]) <= 1
    /\ Done(i) => Answered(i)
    /\ Answered(i) => /\ replies[i][1].Id = req[i].r.Id
                      /\ replies[i][1].Question = req[i].r.Question

C4_AnsweredOnce ==
    /\ [](\A i \in Handlers : OneOwnReply(i))
    /\ \A i \in Handlers : (pc[i] # "idle") ~> Answered(i)

(* C4 witness: a follower was delivered the leader's outcome and a follower
   timed out, each answering its own query. *)
C4_Witness ==
    /\ \E i \in Handlers : Done(i) /\ src[i] = "delivered"
                            /\ replies[i][1].Question # replies[flightOf[i]][1].Question
    /\ \A i \in Handlers : Done(i)

(* C5: a query from a client the deny list matches is answered NXDOMAIN with
   AA=1, whatever the cache holds. *)
C5_DenyBeforeCache ==
    \A i \in Handlers :
        (Done(i) /\ blockedAtStart[i])
            => /\ replies[i][1].Rcode = RcodeNameError
               /\ replies[i][1].Authoritative

(* C6: a query from a client the override matches is answered with the single
   synthesized A record, and no other client is. *)
IsOverride(m, ip) ==
    /\ m.Rcode = RcodeSuccess
    /\ m.Authoritative
    /\ m.Answer = <<RR("A", OverwriteTTL, 0, ip)>>

C6_OverrideBeforeCache ==
    \A i \in Handlers :
        Done(i) =>
            LET domain == normalizeDomain(domainCache, req[i].r.Question[1].Name)
            IN  IF overAtStart[i] /\ ~blockedAtStart[i]
                THEN IsOverride(replies[i][1], overwrites[domain].IP)
                ELSE \A k \in DOMAIN overwrites : ~IsOverride(replies[i][1], overwrites[k].IP)

----------------------------------------------------------------------------
(* The policy store on its own: the deny map grows by addBlockedDomain, and
   isBlocked and the two predicate tests are applied to bounded inputs. *)

PolicyAlphabet == {"a", "b", "."}

RECURSIVE Strings(_, _)
Strings(alphabet, n) ==
    IF n = 0 THEN {<<>>}
    ELSE LET shorter == Strings(alphabet, n - 1)
         IN  shorter \cup {Append(w, c) : w \in {x \in shorter : Len(x) = n - 1},
                                           c \in alphabet}

PolicyDomains == Strings(PolicyAlphabet, MaxLen)

PolicyClients == {NoIP} \cup AllIPs

PolicyAddNames == {<<"B", ".">>, <<"a", ".", "b">>}

PolicySubnets == {[IP |-> 2, Ones |-> 1], [IP |-> 1, Ones |-> IPBits]}

PolicyRestrictions ==
    {NoRestrictions, [IPs |-> {1}, Subnets |-> {}],
     [IPs |-> {}, Subnets |-> {[IP |-> 2, Ones |-> 1]}]}

PolicyEntries == [IPs : SUBSET {0, 1}, Subnets : SUBSET PolicySubnets]

PolicyInputs ==
    [op : {"isBlocked"}, domain : PolicyDomains, clientIP : PolicyClients]
        \cup [op : {"match"}, entry : PolicyEntries, clientIP : PolicyClients]

InitPolicy ==
    /\ InitServer
    /\ config = [CacheTTL |-> 7, NegativeCacheTTL |-> 7]
    /\ maxCacheSize = 0
    /\ nameservers = <<"udp">>
    /\ pin \in PolicyInputs

(* A block list is loaded before the query is made *)
LoadBlock(domain, restrictions) ==
    /\ pout = NoOp
    /\ ReloadBlock(domain, restrictions)

(* isBlocked(domain, clientIP) is called *)
QueryBlocked ==
    /\ pin.op = "isBlocked"
    /\ pout = NoOp
    /\ pout' = [op |-> "isBlocked", bl |-> blocked,
                res |-> isBlocked(blocked, pin.domain, pin.clientIP)]
    /\ UNCHANGED <<config, maxCacheSize, nameservers, blocked, overwrites, cache,
                   pendingRequests, waiters, chan, nameserverIdx, domainCache, now, pc,
                   req, resp, pend, wl, deadline, replies, src, fetched, flightOf,
                   blockedAtStart, overAtStart, dropped, pin,
                   idxValueOf, started, held, prog>>

(* The predicate of one entry is tested against clientIP in both stores *)
QueryMatch ==
    /\ pin.op = "match"
    /\ pout = NoOp
    /\ pout' = [op |-> "match",
                block |-> matchesBlockEntry(pin.entry, pin.clientIP),
                over  |-> getOverwrite([k \in {<<"o">>} |->
                                           [IP |-> "v4", IPs |-> pin.entry.IPs,
                                            Subnets |-> pin.entry.Subnets]],
                                       <<"o">>, pin.clientIP)[2]]
    /\ UNCHANGED <<config, maxCacheSize, nameservers, blocked, overwrites, cache,
                   pendingRequests, waiters, chan, nameserverIdx, domainCache, now, pc,
                   req, resp, pend, wl, deadline, replies, src, fetched, flightOf,
                   blockedAtStart, overAtStart, dropped, pin,
                   idxValueOf, started, held, prog>>

NextPolicy ==
    \/ \E domain \in PolicyAddNames, restrictions \in PolicyRestrictions :
          LoadBlock(domain, restrictions)
    \/ QueryBlocked
    \/ QueryMatch

SpecPolicy == InitPolicy /\ [][NextPolicy]_vars

(* domain is below parent: parent is what is left of domain after a dot *)
IsParentOf(parent, domain) ==
    /\ Len(parent) > 0
    /\ Len(domain) > Len(parent)
    /\ domain[Len(domain) - Len(parent)] = "."
    /\ SubSeq(domain, Len(domain) - Len(parent) + 1, Len(domain)) = parent

(* What a predicate means: no restriction, or a listed IP, or a listed CIDR *)
PredicateHolds(entry, clientIP) ==
    \/ entry.IPs = {} /\ entry.Subnets = {}
    \/ /\ clientIP # NoIP
       /\ \/ clientIP \in entry.IPs
          \/ \E subnet \in entry.Subnets : Contains(subnet, clientIP)

(* C7: isBlocked(name, client) is true iff the deny map has, under the name or
   under a parent suffix cut at a label boundary, an entry whose predicate
   matches the client. *)
C7_BlockedIffEntry ==
    pout.op = "isBlocked" =>
        (pout.res <=>
            \E k \in DOMAIN pout.bl :
                /\ (k = pin.domain \/ IsParentOf(k, pin.domain))
                /\ PredicateHolds(pout.bl[k], pin.clientIP))

(* C7 witness: the entry under the name itself does not match the client and
   an entry under a parent does. *)
C7_Witness ==
    /\ pout.op = "isBlocked"
    /\ pout.res
    /\ pin.domain \in DOMAIN pout.bl
    /\ ~PredicateHolds(pout.bl[pin.domain], pin.clientIP)

(* C8: the deny store and the override store give the same verdict on the
   same predicate and client, and it is the predicate's meaning. *)
C8_SamePredicate ==
    pout.op = "match" =>
        /\ pout.block = pout.over
        /\ pout.block = PredicateHolds(pin.entry, pin.clientIP)

(* C8 witness: a client matched by a CIDR alone. *)
C8_Witness ==
    /\ pout.op = "match"
    /\ pout.block
    /\ pin.entry.IPs = {}
    /\ pin.entry.Subnets # {}

----------------------------------------------------------------------------
(* The response cache on its own: callers put upstream responses, look
   queries up, and go on writing to the messages they hold, while time passes
   and the sweeper runs.  Caller 1 holds the response it put last, caller 2
   the clone it was handed last. *)

CacheConfigs ==
    {[CacheTTL |-> 5, NegativeCacheTTL |-> 7],
     [CacheTTL |-> 0, NegativeCacheTTL |-> 5]}

CacheSizes == {0, 1}

CacheQuery(id, name, rd, cd) ==
    Msg(<<"q", id>>, id, <<Question(name, TypeA, ClassINET)>>, rd, cd,
        FALSE, FALSE, RcodeSuccess, <<>>, <<>>)

CacheQueries ==
    {CacheQuery(1, NameAB, TRUE, FALSE),
     CacheQuery(2, NameAB2, FALSE, TRUE),
     CacheQuery(3, NameO, TRUE, FALSE)}

(* What is put for a query: an answer, and name errors with an SOA (header
   TTL, MINIMUM) *)
CacheKinds ==
    {[rcode |-> RcodeSuccess, answer |-> <<RR("A", 3, 0, "up")>>, ns |-> <<>>]}
        \cup {[rcode |-> RcodeNameError, answer |-> <<>>,
               ns |-> <<RR("SOA", soa[1], soa[2], "soa")>>] :
                  soa \in {<<9, 0>>, <<9, 3>>, <<2, 10>>}}

CacheResponse(q, o, kind) ==
    Msg(o, q.Id, <<Question(ToLower(q.Question[1].Name), TypeA, ClassINET)>>,
        TRUE, FALSE, FALSE, FALSE, kind.rcode, kind.answer, kind.ns)

InitCache ==
    /\ InitServer
    /\ config \in CacheConfigs
    /\ maxCacheSize \in CacheSizes
    /\ nameservers = <<"udp">>
    /\ pin = [op |-> "put", n |-> 0]

(* A caller writes to the message object o it holds (as sendResponse does to
   the ID and question): what a holder m of that object then sees *)
Scribbled(m, o) ==
    IF m # NoMsg /\ m.obj = o
    THEN [m EXCEPT !.Id = 0, !.Rcode = RcodeRefused, !.Answer = <<>>, !.Ns = <<>>]
    ELSE m

ScribbledCache(c, o) ==
    [k \in DOMAIN c |-> [c[k] EXCEPT !.Message = Scribbled(@, o)]]

(* setCachedResponse(q, r) with the upstream response r of the given kind,
   as one of at most limit puts *)
CachePutWithin(q, kind, limit) ==
    /\ pin.n < limit
    /\ LET r   == CacheResponse(q, <<"up", pin.n + 1>>, kind)
           key == getCacheKey(domainCache, q)
       IN  /\ \E c2 \in setCachedResponse(cache, domainCache, config, maxCacheSize, now,
                                          q, r, <<"put", pin.n + 1>>) :
                 LET stored == /\ key \in DOMAIN c2
                               /\ IF key \in DOMAIN cache THEN c2[key] # cache[key]
                                                          ELSE TRUE
                 IN  /\ cache' = c2
                     /\ dropped' = dropped \cup Lost(cache, c2, now)
                     /\ pin' = [op |-> "put", n |-> pin.n + 1, q |-> q, r |-> r,
                                key |-> key, t |-> now, stored |-> stored,
                                exp |-> IF stored THEN c2[key].ExpiresAt ELSE 0,
                                full |-> /\ maxCacheSize > 0
                                         /\ Cardinality(DOMAIN cache) >= maxCacheSize,
                                fits |-> setCachedResponse(EmptyMap, domainCache,
                                             config, 0, now, q, r,
                                             <<"put", pin.n + 1>>) # {EmptyMap}]
           /\ domainCache' = InternAll(domainCache, NamesOf(q, r))
           /\ resp' = [resp EXCEPT ![1] = r]
    /\ pout' = NoOp
    /\ UNCHANGED <<config, maxCacheSize, nameservers, blocked, overwrites,
                   pendingRequests, waiters, chan, nameserverIdx, now, pc, req, pend,
                   wl, deadline, replies, src, fetched, flightOf, blockedAtStart,
                   overAtStart,
                   idxValueOf, started, held, prog>>

CachePut(q, kind) == CachePutWithin(q, kind, MaxOps)

(* getCachedResponse(q) *)
CacheGet(q) ==
    /\ pin.n > 0
    /\ LET res == getCachedResponse(cache, domainCache, config, now, q, <<"hit", 0>>)
           key == getCacheKey(domainCache, q)
       IN  /\ pout' = [op |-> "get", q |-> q, res |-> res, key |-> key, t |-> now,
                       present |-> key \in DOMAIN cache]
           /\ resp' = [resp EXCEPT ![2] = res]
    /\ domainCache' = InternAll(domainCache, NamesOf(q, NoMsg))
    /\ UNCHANGED <<config, maxCacheSize, nameservers, blocked, overwrites, cache,
                   pendingRequests, waiters, chan, nameserverIdx, now, pc, req, pend,
                   wl, deadline, replies, src, fetched, flightOf, blockedAtStart,
                   overAtStart, dropped, pin,
                   idxValueOf, started, held, prog>>

(* Caller i writes to the message it holds *)
Mutate(i) ==
    /\ resp[i] # NoMsg
    /\ resp' = [j \in Handlers |-> Scribbled(resp[j], resp[i].obj)]
    /\ resp' # resp
    /\ cache' = ScribbledCache(cache, resp[i].obj)
    /\ UNCHANGED <<config, maxCacheSize, nameservers, blocked, overwrites,
                   pendingRequests, waiters, chan, nameserverIdx, domainCache, now, pc,
                   req, pend, wl, deadline, replies, src, fetched, flightOf,
                   blockedAtStart, overAtStart, dropped, pin, pout,
                   idxValueOf, started, held, prog>>

NextCache ==
    \/ \E q \in CacheQueries, kind \in CacheKinds : CachePut(q, kind)
    \/ \E q \in CacheQueries : CacheGet(q)
    \/ \E i \in {1, 2} : Mutate(i)
    \/ SweepCache
    \/ Tick

SpecCache == InitCache /\ [][NextCache]_vars

(* m is r in all but the fields a lookup rewrites and the object it is *)
CloneOf(m, r, q) ==
    m = [r EXCEPT !.obj = m.obj, !.Id = q.Id, !.Question = q.Question,
                  !.RecursionDesired = q.RecursionDesired,
                  !.CheckingDisabled = q.CheckingDisabled]

(* C9: after put(Q, R) stored an entry, a get for the same fingerprint before
   the entry expires or leaves the cache returns R with ID, question, RD and
   CD of the get's query; the stored message stays as R was when it was put,
   whatever is written later to R or to a returned clone. *)
C9_RoundTrip ==
    (pin.n > 0 /\ pin.stored) =>
        /\ pin.key \in DOMAIN cache =>
              cache[pin.key].Message = [pin.r EXCEPT !.obj = cache[pin.key].Message.obj]
        /\ (pout.op = "get" /\ pout.key = pin.key) =>
              /\ pout.res # NoMsg => CloneOf(pout.res, pin.r, pout.q)
              /\ (pout.present /\ pout.t < pin.exp) => pout.res # NoMsg

(* C9 witness: a get with another ID hit, the caller has written to R and to
   the returned clone, and the entry is still in the cache. *)
C9_Witness ==
    /\ pin.n > 0
    /\ pin.stored
    /\ pout.op = "get"
    /\ pout.key = pin.key
    /\ pout.res # NoMsg
    /\ pout.q.Id # pin.q.Id
    /\ pin.key \in DOMAIN cache
    /\ resp[1] # pin.r
    /\ resp[2] # pout.res

(* C10: a negative response whose SOA has MINIMUM m is stored with a TTL of at
   most min(negative_ttl_s, m), and not at all when that is below 1 s. *)
C10_NegativeTTLBound ==
    (pin.n > 0 /\ isNegativeResponse(pin.r) /\ SOAIndexes(pin.r.Ns) # {}) =>
        LET m     == pin.r.Ns[FirstSOA(pin.r.Ns)].Minttl
            bound == Min(config.NegativeCacheTTL, m)
        IN  IF bound < 1 THEN ~pin.stored
            ELSE pin.stored => pin.exp - pin.t <= bound

----------------------------------------------------------------------------
(* Claims about the request pipeline, continued *)

(* C11: a query that arrives while the cache holds an entry for its
   fingerprint that has not yet expired is answered from the cache, with the
   RCODE and records stored, and makes no upstream forward call. *)
C11_CachedOutcomeServed ==
    [][\A i \in Handlers :
          (pc[i] = "idle" /\ pc'[i] # "idle") =>
              LET key == KeyOf(i)'
              IN  (key \in DOMAIN cache /\ now < cache[key].ExpiresAt) =>
                      /\ pc'[i] = "done"
                      /\ src'[i] = "cache"
                      /\ Content(replies'[i][1]) = Content(cache[key].Message)
                      /\ ~fetched'[i]
                      /\ nameserverIdx' = nameserverIdx]_vars

(* C11 witness: an upstream name error was fetched by one query and then
   served from the cache to a query that spells the name differently. *)
C11_Witness ==
    \E i, j \in Handlers :
        /\ i # j
        /\ Done(j) /\ fetched[j] /\ src[j] = "upstream"
        /\ Done(i) /\ ~fetched[i] /\ src[i] = "cache"
        /\ KeyOf(i) = KeyOf(j)
        /\ req[i].r.Question # req[j].r.Question
        /\ replies[i][1].Rcode = RcodeNameError
        /\ Content(replies[i][1]) = Content(replies[j][1])

(* The name error the resolver makes up for query r when no endpoint answered *)
IsSynthesized(m, r) ==
    /\ m.Rcode = RcodeNameError
    /\ m.Authoritative
    /\ m.Answer = <<>>
    /\ m.Ns = <<>>
    /\ Len(m.Question) > 0
    /\ m.Question[1] = r.Question[1]

(* C12: a leader whose endpoints all failed answers with a synthesized name
   error (AA=1, the query's ID and question) and, with negative caching on,
   stores it for negative_ttl_s; a query arriving while that entry is in the
   cache and younger than negative_ttl_s is answered with the name error and
   makes no endpoint attempt. *)
C12_FailureSynthesized ==
    [][\A i \in Handlers :
          /\ (fetched'[i] /\ src'[i] = "synth" /\ Answered(i)') =>
                 /\ IsSynthesized(replies'[i][1], req'[i].r)
                 /\ replies'[i][1].Id = req'[i].r.Id
                 /\ replies'[i][1].Question = req'[i].r.Question
          /\ (pc[i] = "lput" /\ pc'[i] # "lput" /\ src[i] = "synth"
                  /\ config.NegativeCacheTTL > 0) =>
                 /\ KeyOf(i) \in DOMAIN cache'
                 /\ IsSynthesized(cache'[KeyOf(i)].Message, req[i].r)
                 /\ cache'[KeyOf(i)].ExpiresAt = now + config.NegativeCacheTTL
          /\ (pc[i] = "idle" /\ pc'[i] # "idle") =>
                 LET key == KeyOf(i)'
                 IN  (/\ key \in DOMAIN cache
                      /\ cache[key].Message.Authoritative
                      /\ cache[key].Message.Rcode = RcodeNameError
                      /\ now < cache[key].ExpiresAt) =>
                         /\ Answered(i)'
                         /\ IsSynthesized(replies'[i][1], req'[i].r)
                         /\ replies'[i][1].Id = req'[i].r.Id
                         /\ ~fetched'[i]
                         /\ nameserverIdx' = nameserverIdx]_vars

(* C12 witness: one query's endpoints all failed, and a later query with the
   same fingerprint got the stored name error from the cache. *)
C12_Witness ==
    \E i, j \in Handlers :
        /\ i # j
        /\ Done(j) /\ fetched[j] /\ src[j] = "synth"
        /\ Done(i) /\ ~fetched[i] /\ src[i] = "cache"
        /\ KeyOf(i) = KeyOf(j)
        /\ IsSynthesized(replies[i][1], req[i].r)
        /\ replies[i][1].Id # replies[j][1].Id
        /\ nameserverIdx = 1

----------------------------------------------------------------------------
(* The forwarder on its own: forwardDirectInternal is invoked again and again
   by concurrent callers, against one to three endpoints, each of which
   answers or fails. *)

ForwardNameservers == {<<"udp">>, <<"udp", "tcp">>, <<"udp", "tcp", "dot">>}

InitForward ==
    /\ InitServer
    /\ config = [CacheTTL |-> 7, NegativeCacheTTL |-> 7]
    /\ maxCacheSize = 0
    /\ nameservers \in ForwardNameservers
    /\ pin = NoOp

(* The answer of the endpoint with index idx *)
UpFrom(r, o, idx) ==
    Msg(o, r.Id, <<Question(ToLower(r.Question[1].Name), TypeA, ClassINET)>>,
        TRUE, FALSE, FALSE, FALSE, RcodeSuccess, <<RR("A", 3, 0, Digit(idx))>>, <<>>)

(* forwardDirectInternal, lines 308-319: the atomic add and the starting index *)
ForwardAdd(i) ==
    /\ pc[i] = "idle"
    /\ Len(nameservers) # 0
    /\ Len(started) < MaxForwards
    /\ LET n == AddUint64(nameserverIdx, 1)
       IN  /\ nameserverIdx' = n
           /\ idxValueOf' = [idxValueOf EXCEPT ![i] = n - 1]
           /\ started' = Append(started, startIdx(nameservers, n - 1))
    /\ resp' = [resp EXCEPT ![i] = NoMsg]
    /\ pc' = [pc EXCEPT ![i] = "ftry"]
    /\ UNCHANGED <<config, maxCacheSize, nameservers, blocked, overwrites, cache,
                   pendingRequests, waiters, chan, domainCache, now, req, pend, wl,
                   deadline, replies, src, fetched, flightOf, blockedAtStart,
                   overAtStart, dropped, pin, pout, held, prog>>

(* forwardDirectInternal, lines 321-333: the endpoints are tried in turn from
   the starting index; healthy is the set of endpoints that answer *)
ForwardTry(i) ==
    /\ pc[i] = "ftry"
    /\ \E healthy \in SUBSET (0..(Len(nameservers) - 1)) :
          LET r    == Query(i, NameAB)
              outs == [k \in 1..Len(nameservers) |->
                          IF (k - 1) \in healthy
                          THEN NoRetry(FALSE, UpFrom(r, <<"up", i>>, k - 1))
                          ELSE NoRetry(TRUE, NoMsg)]
              m    == forwardDirectInternal(Intern(domainCache, NameAB), nameservers,
                                            idxValueOf[i], r, outs)
          IN  /\ resp' = [resp EXCEPT ![i] = m]
              /\ pout' = [op |-> "forward", idxValue |-> idxValueOf[i],
                          healthy |-> healthy, res |-> m]
    /\ domainCache' = InternAll(domainCache, <<NameAB, ToLower(NameAB)>>)
    /\ pc' = [pc EXCEPT ![i] = "idle"]
    /\ UNCHANGED <<config, maxCacheSize, nameservers, blocked, overwrites, cache,
                   pendingRequests, waiters, chan, nameserverIdx, now, req, pend, wl,
                   deadline, replies, src, fetched, flightOf, blockedAtStart,
                   overAtStart, dropped, pin, idxValueOf, started, held, prog>>

NextForward ==
    \/ \E i \in Handlers : ForwardAdd(i)
    \/ \E i \in Handlers : ForwardTry(i)

SpecForward == InitForward /\ [][NextForward]_vars

(* How often x is among seq[a], ..., seq[b] *)
CountIn(seq, a, b, x) == Cardinality({k \in a..b : seq[k] = x})

(* C13: among any 3N forward invocations that follow one another on the
   counter every endpoint index is the starting index exactly 3 times; two
   forwards in flight never hold the same counter value; and the loop starts
   at the index chosen: an endpoint that answers at the starting index is the
   one whose answer is returned. *)
C13_RoundRobin ==
    LET N == Len(nameservers)
    IN  /\ \A a \in 1..Len(started) :
               (a + 3 * N - 1 <= Len(started)) =>
                   \A x \in 0..(N - 1) : CountIn(started, a, a + 3 * N - 1, x) = 3
        /\ \A i, j \in Handlers :
               (i # j /\ pc[i] = "ftry" /\ pc[j] = "ftry") =>
                   idxValueOf[i] # idxValueOf[j]
        /\ (pout.op = "forward" /\ (pout.idxValue % N) \in pout.healthy) =>
               /\ pout.res # NoMsg
               /\ pout.res.Answer[1].Data = Digit(pout.idxValue % N)

(* C13 witness: three endpoints, nine invocations, two of them in flight at
   once, and an earlier one answered by the endpoint at its starting index. *)
C13_Witness ==
    /\ Len(nameservers) = 3
    /\ Len(started) = 3 * Len(nameservers)
    /\ \A i \in Handlers : pc[i] = "ftry"
    /\ pout.op = "forward"
    /\ (pout.idxValue % 3) \in pout.healthy
    /\ pout.idxValue % 3 = 2

----------------------------------------------------------------------------
(* One exchange with the endpoints on its own: the leader forwards a query and
   stores what it got (handleFirstRequest, lines 175-191), for every way the
   endpoints may behave on the first exchange and on the TCP retry. *)

TruncNameservers == {<<"udp">>, <<"tcp">>, <<"udp", "udp">>, <<"udp", "dot">>}

TruncQuery == Query(1, NameAB)

(* The messages an endpoint may send: the full answer, a cut answer with
   TC=1, and an answer to another question *)
WireMsg(o, name, tc, data) ==
    Msg(o, 1, <<Question(name, TypeA, ClassINET)>>, TRUE, FALSE, FALSE, tc,
        RcodeSuccess, <<RR("A", 3, 0, data)>>, <<>>)

FirstReplies ==
    {NoMsg,
     WireMsg(<<"first", 0>>, ToLower(NameAB), FALSE, "full"),
     WireMsg(<<"first", 0>>, ToLower(NameAB), TRUE, "cut"),
     WireMsg(<<"first", 0>>, NameO, FALSE, "full")}

RetryReplies ==
    {NoMsg,
     WireMsg(<<"retry", 0>>, ToLower(NameAB), FALSE, "full"),
     WireMsg(<<"retry", 0>>, ToLower(NameAB), TRUE, "cutagain"),
     WireMsg(<<"retry", 0>>, NameO, FALSE, "full")}

TruncOutcomes ==
    {NoRetry(TRUE, NoMsg)}
        \cup [err : {FALSE}, resp : FirstReplies \ {NoMsg}, tcpErr : {FALSE},
              tcpResp : RetryReplies]
        \cup [err : {FALSE}, resp : FirstReplies, tcpErr : {TRUE}, tcpResp : {NoMsg}]

(* The messages of outcome out are objects of their own for endpoint k *)
FromEndpoint(out, k) ==
    [out EXCEPT !.resp = IF @ = NoMsg THEN @ ELSE [@ EXCEPT !.obj = <<"first", k>>],
                !.tcpResp = IF @ = NoMsg THEN @ ELSE [@ EXCEPT !.obj = <<"retry", k>>]]

InitTrunc ==
    /\ InitServer
    /\ config = [CacheTTL |-> 7, NegativeCacheTTL |-> 7]
    /\ maxCacheSize = 0
    /\ nameservers \in TruncNameservers
    /\ pin \in {[op |-> "forward",
                  outs |-> [k \in 1..Len(nameservers) |-> FromEndpoint(f[k], k)]] :
                   f \in [1..Len(nameservers) -> TruncOutcomes]}

(* handleFirstRequest, lines 175-191: forward, then store the outcome *)
Exchange ==
    /\ nameserverIdx < MaxOps
    /\ LET r  == TruncQuery
           dc == Intern(domainCache, NameAB)
           n  == AddUint64(nameserverIdx, 1)
           m  == forwardDirectInternal(dc, nameservers, n - 1, r, pin.outs)
           rs == IF m = NoMsg THEN createNXDOMAINResponse(r, <<"nx", 1>>) ELSE m
       IN  /\ nameserverIdx' = n
           /\ resp' = [resp EXCEPT ![1] = rs]
           /\ \E c2 \in setCachedResponse(cache, dc, config, maxCacheSize, now, r, rs,
                                          <<"put", n>>) :
                 cache' = c2
           /\ pout' = [op |-> "forward", idxValue |-> n - 1, res |-> m]
           /\ domainCache' = InternAll(dc, NamesOf(r, rs))
    /\ UNCHANGED <<config, maxCacheSize, nameservers, blocked, overwrites,
                   pendingRequests, waiters, chan, now, pc, req, pend, wl, deadline,
                   replies, src, fetched, flightOf, blockedAtStart, overAtStart,
                   dropped, pin, idxValueOf, started, held, prog>>

NextTrunc == Exchange \/ Tick

SpecTrunc == InitTrunc /\ [][NextTrunc]_vars

(* m answers the question of r *)
Answers(m, r) ==
    /\ m # NoMsg
    /\ Len(m.Question) > 0
    /\ Normalized(m.Question[1].Name) = Normalized(r.Question[1].Name)
    /\ m.Question[1].Qtype = r.Question[1].Qtype
    /\ m.Question[1].Qclass = r.Question[1].Qclass

(* What one endpoint contributes: NoMsg when it counts as failed *)
AttemptResult(protocol, out, r) ==
    IF out.err \/ ~Answers(out.resp, r) THEN NoMsg
    ELSE IF out.resp.Truncated /\ protocol = "udp"
         THEN IF ~out.tcpErr /\ Answers(out.tcpResp, r) THEN out.tcpResp ELSE NoMsg
         ELSE out.resp

(* The endpoints in the order they are tried from index start (0-based) *)
TryOrder(n, start) == [k \in 1..n |-> ((start + k - 1) % n) + 1]

(* C14: a valid UDP reply with TC=1 is replaced by the reply of one TCP retry
   to the same endpoint, or the endpoint counts as failed and the next one is
   tried; the result of forward is the first endpoint's contribution that is
   not a failure, and it is what the cache holds; the cut UDP message is
   neither returned nor stored. *)
C14_TruncationFallback ==
    pout.op = "forward" =>
        LET n     == Len(nameservers)
            order == TryOrder(n, pout.idxValue % n)
            got   == [k \in 1..n |->
                         AttemptResult(nameservers[order[k]], pin.outs[order[k]],
                                       TruncQuery)]
            good  == {k \in 1..n : got[k] # NoMsg}
        IN  /\ IF good = {} THEN pout.res = NoMsg
               ELSE \E k \in good : /\ \A k2 \in good : k <= k2
                                    /\ pout.res = got[k]
            /\ pout.res # NoMsg =>
                   ~(\E k \in 1..n : /\ nameservers[k] = "udp"
                                     /\ pin.outs[k].resp # NoMsg
                                     /\ pin.outs[k].resp.Truncated
                                     /\ pout.res = pin.outs[k].resp)
            /\ pout.res # NoMsg =>
                   \A key \in DOMAIN cache :
                       /\ Content(cache[key].Message) = Content(pout.res)
                       /\ cache[key].Message.Truncated = pout.res.Truncated

(* C14 witness: the first endpoint's UDP reply was cut and its TCP retry
   failed validation, the second endpoint's UDP reply was cut and its TCP reply
   was whole: that TCP reply is the result and is what the cache holds. *)
C14_Witness ==
    /\ pout.op = "forward"
    /\ nameservers = <<"udp", "udp">>
    /\ pout.idxValue = 0
    /\ pin.outs[1].resp # NoMsg /\ pin.outs[1].resp.Truncated
    /\ ~pin.outs[1].tcpErr /\ pin.outs[1].tcpResp # NoMsg
    /\ ~Answers(pin.outs[1].tcpResp, TruncQuery)
    /\ pin.outs[2].resp # NoMsg /\ pin.outs[2].resp.Truncated
    /\ pout.res = pin.outs[2].tcpResp
    /\ pout.res # NoMsg /\ ~pout.res.Truncated
    /\ \E key \in DOMAIN cache : Content(cache[key].Message) = Content(pout.res)

----------------------------------------------------------------------------
(* The domain normalizer on its own: normalizeDomain is called on a bounded
   input string and then on its own result, with the interning map the first
   call left. *)

NormalizeAlphabet == {"a", "B", " ", "."}

NormalizeInputs == Strings(NormalizeAlphabet, MaxLen)

InitNormalize ==
    /\ InitServer
    /\ config = [CacheTTL |-> 7, NegativeCacheTTL |-> 7]
    /\ maxCacheSize = 0
    /\ nameservers = <<"udp">>
    /\ pin \in [op : {"normalize"}, x : NormalizeInputs]

(* normalizeDomain(x) *)
NormalizeCall ==
    /\ pout = NoOp
    /\ pout' = [op |-> "normalize", n |-> 1,
                y |-> normalizeDomain(domainCache, pin.x),
                yy |-> <<>>]
    /\ domainCache' = Intern(domainCache, pin.x)
    /\ UNCHANGED <<config, maxCacheSize, nameservers, blocked, overwrites, cache,
                   pendingRequests, waiters, chan, nameserverIdx, now, pc, req, resp,
                   pend, wl, deadline, replies, src, fetched, flightOf,
                   blockedAtStart, overAtStart, dropped, pin, idxValueOf, started,
                   held, prog>>

(* normalizeDomain(normalizeDomain(x)) *)
NormalizeAgain ==
    /\ pout.op = "normalize"
    /\ pout.n = 1
    /\ pout' = [pout EXCEPT !.n = 2, !.yy = normalizeDomain(domainCache, pout.y)]
    /\ domainCache' = Intern(domainCache, pout.y)
    /\ UNCHANGED <<config, maxCacheSize, nameservers, blocked, overwrites, cache,
                   pendingRequests, waiters, chan, nameserverIdx, now, pc, req, resp,
                   pend, wl, deadline, replies, src, fetched, flightOf,
                   blockedAtStart, overAtStart, dropped, pin, idxValueOf, started,
                   held, prog>>

NextNormalize == NormalizeCall \/ NormalizeAgain

SpecNormalize == InitNormalize /\ [][NextNormalize]_vars

(* The canonical form of a name *)
IsCanonical(s) ==
    /\ \A k \in 1..Len(s) : s[k] \notin {"A", "B"}
    /\ Len(s) > 0 => /\ ~IsSpace(s[1])
                     /\ ~IsSpace(s[Len(s)])
                     /\ s[Len(s)] # "."

(* C15: normalize(x) is lowercase, has no white space at either end and no
   trailing dot, and normalizing it again changes nothing. *)
C15_NormalizeCanonical ==
    pout.op = "normalize" =>
        /\ IsCanonical(pout.y)
        /\ pout.n = 2 => pout.yy = pout.y

----------------------------------------------------------------------------
(* The fingerprint on its own: getCacheKey is applied to two queries, while
   block lists are loaded; all of them pass their names to normalizeDomain. *)

TypeAAAA == 28

KeyNames == {NameAB, NameAB2, <<"a", ".", "b">>}

KeyQueries ==
    {Msg(<<"q", h[1]>>, h[1], <<Question(name, qtype, ClassINET)>>, h[2], h[3],
         FALSE, FALSE, RcodeSuccess, <<>>, <<>>) :
        name \in KeyNames, qtype \in {TypeA, TypeAAAA},
        h \in {<<1, TRUE, FALSE>>, <<2, FALSE, TRUE>>}}

(* Lines of a block list: a.b.. and b *)
KeyListNames == {<<"a", ".", "b", ".", ".">>, <<"b">>}

InitKey ==
    /\ InitServer
    /\ config = [CacheTTL |-> 7, NegativeCacheTTL |-> 7]
    /\ maxCacheSize = 0
    /\ nameservers = <<"udp">>
    /\ pin \in [op : {"key"}, q1 : KeyQueries, q2 : KeyQueries]

(* getCacheKey(q1) *)
KeyFirst ==
    /\ pout = NoOp
    /\ pout' = [op |-> "key", n |-> 1, k1 |-> getCacheKey(domainCache, pin.q1),
                k2 |-> <<>>]
    /\ domainCache' = Intern(domainCache, pin.q1.Question[1].Name)
    /\ UNCHANGED <<config, maxCacheSize, nameservers, blocked, overwrites, cache,
                   pendingRequests, waiters, chan, nameserverIdx, now, pc, req, resp,
                   pend, wl, deadline, replies, src, fetched, flightOf,
                   blockedAtStart, overAtStart, dropped, pin, idxValueOf, started,
                   held, prog>>

(* getCacheKey(q2) *)
KeySecond ==
    /\ pout.op = "key"
    /\ pout.n = 1
    /\ pout' = [pout EXCEPT !.n = 2, !.k2 = getCacheKey(domainCache, pin.q2)]
    /\ domainCache' = Intern(domainCache, pin.q2.Question[1].Name)
    /\ UNCHANGED <<config, maxCacheSize, nameservers, blocked, overwrites, cache,
                   pendingRequests, waiters, chan, nameserverIdx, now, pc, req, resp,
                   pend, wl, deadline, replies, src, fetched, flightOf,
                   blockedAtStart, overAtStart, dropped, pin, idxValueOf, started,
                   held, prog>>

(* A block list is loaded before the second key is taken *)
KeyLoad(domain) ==
    /\ IF pout.op = "key" THEN pout.n = 1 ELSE TRUE
    /\ ReloadBlock(domain, NoRestrictions)

NextKey ==
    \/ KeyFirst
    \/ KeySecond
    \/ \E domain \in KeyListNames : KeyLoad(domain)

SpecKey == InitKey /\ [][NextKey]_vars

(* The two queries ask the same thing: names that differ in letter case or a
   trailing dot, the same QTYPE and QCLASS *)
SameQuestion(q1, q2) ==
    /\ Normalized(q1.Question[1].Name) = Normalized(q2.Question[1].Name)
    /\ q1.Question[1].Qtype = q2.Question[1].Qtype
    /\ q1.Question[1].Qclass = q2.Question[1].Qclass

(* C16: two queries that ask the same thing get the same key from getCacheKey,
   whatever their IDs and flags are. *)
C16_FingerprintStable ==
    (pout.op = "key" /\ pout.n = 2 /\ SameQuestion(pin.q1, pin.q2)) =>
        pout.k1 = pout.k2

----------------------------------------------------------------------------
(* The resolver when queries without a question section arrive among the
   others. *)

(* The query of handler i with an empty question section *)
EmptyQuery(i) ==
    Msg(<<"q", i>>, i, <<>>, TRUE, FALSE, FALSE, FALSE, RcodeSuccess, <<>>, <<>>)

(* handleDNSRequest, lines 10-23, for a query without a question: the cache
   lookup finds no key, and r.Question[0] at line 23 is an index out of range.
   The run-time panic ends the handler's goroutine; whether it ends the whole
   process depends on the DNS library recovering it or not. *)
HandleMalformed(i) ==
    /\ pc[i] = "idle"
    /\ IF i = 1 THEN TRUE ELSE pc[i - 1] # "idle"
    /\ now + FollowerTimeout <= MaxTime
    /\ LET r          == EmptyQuery(i)
           cachedResp == getCachedResponse(cache, domainCache, config, now, r, <<"hit", i>>)
       IN  /\ req' = [req EXCEPT ![i] = [r |-> r, clientIP |-> 1]]
           /\ IF cachedResp # NoMsg
              THEN Reply(i, cachedResp, "cache")
              ELSE /\ \E recovered \in BOOLEAN :
                         pc' = IF recovered
                               THEN [pc EXCEPT ![i] = "panic"]
                               ELSE [j \in Handlers |-> "panic"]
                   /\ UNCHANGED <<replies, src>>
    /\ UNCHANGED <<config, maxCacheSize, nameservers, blocked, overwrites, cache,
                   pendingRequests, waiters, chan, nameserverIdx, domainCache, now,
                   resp, pend, wl, deadline, fetched, flightOf, blockedAtStart,
                   overAtStart, dropped, pin, pout, idxValueOf, started, held, prog>>

NextMalformed ==
    \/ LiveNext
    \/ \E i \in Handlers : HandleMalformed(i)

SpecMalformed == LiveInit /\ [][NextMalformed]_vars

(* C17: a query with an empty question section makes the handler return
   without failing, and without an upstream forward. *)
C17_EmptyQuestionRejected ==
    \A i \in Handlers :
        (req[i].r # NoMsg /\ Len(req[i].r.Question) = 0) =>
            /\ pc[i] = "done"
            /\ ~fetched[i]

----------------------------------------------------------------------------
(* C18: with a size limit the cache never holds more entries than the limit,
   whatever puts (answers, name errors) and sweeps interleave, and a put into
   a full cache stores its entry whenever the same put would store it in a
   cache without limit. *)
C18_CacheBounded ==
    maxCacheSize > 0 =>
        /\ Cardinality(DOMAIN cache) <= maxCacheSize
        /\ (pin.n > 0 /\ pin.full) => (pin.stored <=> pin.fits)

(* C18 witness: a put into a full cache has stored its entry and another
   entry has left the cache for it. *)
C18_Witness ==
    /\ maxCacheSize > 0
    /\ pin.n > 0
    /\ pin.full
    /\ pin.fits
    /\ pin.stored
    /\ pin.key \in DOMAIN cache
    /\ dropped # {}
    /\ Cardinality(DOMAIN cache) = maxCacheSize

----------------------------------------------------------------------------
(* The locks of the server: cacheMu and mu (RWMutex), pendingMu, and the mu
   of every PendingRequest.  Each task runs the lock operations of the
   function it executes, in the order of the source; an operation is
   <<op, lock, entry>>. *)

LockEntries == Handlers

Lock(l, e) == <<"Lock", l, e>>

RLock(l, e) == <<"RLock", l, e>>

Unlock(l, e) == <<"Unlock", l, e>>

RUnlock(l, e) == <<"RUnlock", l, e>>

(* getCachedResponse: returns before the lock when caching is off *)
getCachedResponseLocks(cfg) ==
    IF cfg.CacheTTL <= 0 /\ cfg.NegativeCacheTTL <= 0
    THEN <<>>
    ELSE <<RLock("cacheMu", 0), RUnlock("cacheMu", 0)>>

(* A call of function f, whose lock operations are chosen when the call is
   made *)
Call(f, e) == <<"Call", f, e>>

(* setCachedResponse: the locked section of cacheNegativeResponse or
   cachePositiveResponse, reached when the response is one to store *)
setCachedResponseLocks(cfg) ==
    IF cfg.CacheTTL <= 0 /\ cfg.NegativeCacheTTL <= 0
    THEN {<<>>}
    ELSE {<<>>, <<Lock("cacheMu", 0), Unlock("cacheMu", 0)>>}

isBlockedLocks == <<RLock("mu", 0), RUnlock("mu", 0)>>

getOverwriteLocks == <<RLock("mu", 0), RUnlock("mu", 0)>>

addBlockedDomainLocks == <<Lock("mu", 0), Unlock("mu", 0)>>

cleanupExpiredCacheLocks == <<Lock("cacheMu", 0), Unlock("cacheMu", 0)>>

(* handleFirstRequest with the PendingRequest e: cached answer found on the
   second look, or forward and store *)
handleFirstRequestLocks(e, cfg) ==
    {getCachedResponseLocks(cfg)
         \o <<Lock("pending.mu", e), Unlock("pending.mu", e),
              Lock("pendingMu", 0), Unlock("pendingMu", 0)>>,
     getCachedResponseLocks(cfg) \o <<Call("setCachedResponse", 0)>>
         \o <<Lock("pending.mu", e), Unlock("pending.mu", e),
              Lock("pendingMu", 0), Unlock("pendingMu", 0)>>}

(* waitForPendingRequest: the response arrives, or the timeout branch looks
   the cache up and stores the synthesized response *)
waitForPendingRequestLocks(e, cfg) ==
    {<<Lock("pending.mu", e), Unlock("pending.mu", e)>> \o rest :
        rest \in {<<>>, getCachedResponseLocks(cfg),
                  getCachedResponseLocks(cfg) \o <<Call("setCachedResponse", 0)>>}}

(* A forwardRequest that keeps pendingMu until the leader or follower has
   finished *)
forwardRequestLocksNested(cfg) ==
    {getCachedResponseLocks(cfg),
     getCachedResponseLocks(cfg) \o <<Call("setCachedResponse", 0)>>}
        \cup {getCachedResponseLocks(cfg)
                  \o <<Lock("pendingMu", 0), Call(f, e), Unlock("pendingMu", 0)>> :
                  f \in {"handleFirstRequest", "waitForPendingRequest"},
                  e \in LockEntries}

(* forwardRequest: answered from the cache, forwardDirect when there is no
   key, leader of a new PendingRequest, or follower of the one found *)
forwardRequestLocks(cfg) ==
    {getCachedResponseLocks(cfg),
     getCachedResponseLocks(cfg) \o <<Call("setCachedResponse", 0)>>}
        \cup {getCachedResponseLocks(cfg)
                  \o <<Lock("pendingMu", 0), Unlock("pendingMu", 0), Call(f, e)>> :
                  f \in {"handleFirstRequest", "waitForPendingRequest"},
                  e \in LockEntries}

(* handleDNSRequest: cache hit, blocked, overwritten, forwarded *)
handleDNSRequestLocks(cfg) ==
    {getCachedResponseLocks(cfg),
     getCachedResponseLocks(cfg) \o isBlockedLocks,
     getCachedResponseLocks(cfg) \o isBlockedLocks \o getOverwriteLocks,
     getCachedResponseLocks(cfg) \o isBlockedLocks \o getOverwriteLocks
         \o <<Call("forwardRequest", 0)>>}

(* The lock operations of a call *)
BodyOf(op, cfg) ==
    IF op[2] = "forwardRequest" THEN forwardRequestLocks(cfg)
    ELSE IF op[2] = "handleFirstRequest" THEN handleFirstRequestLocks(op[3], cfg)
    ELSE IF op[2] = "waitForPendingRequest" THEN waitForPendingRequestLocks(op[3], cfg)
    ELSE setCachedResponseLocks(cfg)

(* The orders in which the range over pendingRequests may visit entries *)
VisitOrders ==
    {o \in UNION {[1..n -> LockEntries] : n \in 0..NReq} :
        \A a, b \in DOMAIN o : a # b => o[a] # o[b]}

RECURSIVE VisitLocks(_)
VisitLocks(o) ==
    IF o = <<>> THEN <<>>
    ELSE <<Lock("pending.mu", Head(o)), Unlock("pending.mu", Head(o))>>
             \o VisitLocks(Tail(o))

cleanupStalePendingRequestsLocks ==
    {<<Lock("pendingMu", 0)>> \o VisitLocks(o) \o <<Unlock("pendingMu", 0)>> :
        o \in VisitOrders}

LockConfigs ==
    {[CacheTTL |-> 5, NegativeCacheTTL |-> 7],
     [CacheTTL |-> 0, NegativeCacheTTL |-> 0]}

InitLocks ==
    /\ InitServer
    /\ config \in LockConfigs
    /\ maxCacheSize = 0
    /\ nameservers = <<"udp">>
    /\ pin = NoOp

(* Task t is between two calls *)
Resting(t) == prog[t] = <<>> /\ held[t] = {}

HandlerBegin(i) ==
    /\ Resting(i)
    /\ \E p \in handleDNSRequestLocks(config) :
          /\ p # <<>>
          /\ prog' = [prog EXCEPT ![i] = p]
    /\ UNCHANGED held
    /\ UNCHANGED <<config, maxCacheSize, nameservers, blocked, overwrites, cache,
                   pendingRequests, waiters, chan, nameserverIdx, domainCache, now, pc,
                   req, resp, pend, wl, deadline, replies, src, fetched, flightOf,
                   blockedAtStart, overAtStart, dropped, pin, pout, idxValueOf,
                   started>>

PendingSweepBegin ==
    /\ Resting(PendingSweeper)
    /\ \E p \in cleanupStalePendingRequestsLocks :
          prog' = [prog EXCEPT ![PendingSweeper] = p]
    /\ UNCHANGED held
    /\ UNCHANGED <<config, maxCacheSize, nameservers, blocked, overwrites, cache,
                   pendingRequests, waiters, chan, nameserverIdx, domainCache, now, pc,
                   req, resp, pend, wl, deadline, replies, src, fetched, flightOf,
                   blockedAtStart, overAtStart, dropped, pin, pout, idxValueOf,
                   started>>

CacheSweepBegin ==
    /\ Resting(CacheSweeper)
    /\ prog' = [prog EXCEPT ![CacheSweeper] = cleanupExpiredCacheLocks]
    /\ UNCHANGED held
    /\ UNCHANGED <<config, maxCacheSize, nameservers, blocked, overwrites, cache,
                   pendingRequests, waiters, chan, nameserverIdx, domainCache, now, pc,
                   req, resp, pend, wl, deadline, replies, src, fetched, flightOf,
                   blockedAtStart, overAtStart, dropped, pin, pout, idxValueOf,
                   started>>

ReloadBegin ==
    /\ Resting(Refresher)
    /\ prog' = [prog EXCEPT ![Refresher] = addBlockedDomainLocks]
    /\ UNCHANGED held
    /\ UNCHANGED <<config, maxCacheSize, nameservers, blocked, overwrites, cache,
                   pendingRequests, waiters, chan, nameserverIdx, domainCache, now, pc,
                   req, resp, pend, wl, deadline, replies, src, fetched, flightOf,
                   blockedAtStart, overAtStart, dropped, pin, pout, idxValueOf,
                   started>>

(* Task t enters the function it calls next *)
Enter(t) ==
    /\ prog[t] # <<>>
    /\ Head(prog[t])[1] = "Call"
    /\ \E p \in BodyOf(Head(prog[t]), config) :
          prog' = [prog EXCEPT ![t] = p \o Tail(@)]
    /\ UNCHANGED held
    /\ UNCHANGED <<config, maxCacheSize, nameservers, blocked, overwrites, cache,
                   pendingRequests, waiters, chan, nameserverIdx, domainCache, now, pc,
                   req, resp, pend, wl, deadline, replies, src, fetched, flightOf,
                   blockedAtStart, overAtStart, dropped, pin, pout, idxValueOf,
                   started>>

(* sync.Mutex and sync.RWMutex: Lock needs the lock free of holders, the
   caller included; RLock needs it free of a writer. *)
CanAcquire(t, op) ==
    IF op[1] = "Lock"
    THEN \A u \in Tasks : \A h \in held[u] : ~(h[1] = op[2] /\ h[2] = op[3])
    ELSE \A u \in Tasks : <<op[2], op[3], "w">> \notin held[u]

Acquire(t) ==
    /\ prog[t] # <<>>
    /\ Head(prog[t])[1] \in {"Lock", "RLock"}
    /\ CanAcquire(t, Head(prog[t]))
    /\ LET op == Head(prog[t])
       IN  held' = [held EXCEPT ![t] = @ \cup
                       {<<op[2], op[3], IF op[1] = "Lock" THEN "w" ELSE "r">>}]
    /\ prog' = [prog EXCEPT ![t] = Tail(@)]
    /\ UNCHANGED <<config, maxCacheSize, nameservers, blocked, overwrites, cache,
                   pendingRequests, waiters, chan, nameserverIdx, domainCache, now, pc,
                   req, resp, pend, wl, deadline, replies, src, fetched, flightOf,
                   blockedAtStart, overAtStart, dropped, pin, pout, idxValueOf,
                   started>>

Release(t) ==
    /\ prog[t] # <<>>
    /\ Head(prog[t])[1] \in {"Unlock", "RUnlock"}
    /\ LET op == Head(prog[t])
       IN  held' = [held EXCEPT ![t] = @ \
                       {<<op[2], op[3], IF op[1] = "Unlock" THEN "w" ELSE "r">>}]
    /\ prog' = [prog EXCEPT ![t] = Tail(@)]
    /\ UNCHANGED <<config, maxCacheSize, nameservers, blocked, overwrites, cache,
                   pendingRequests, waiters, chan, nameserverIdx, domainCache, now, pc,
                   req, resp, pend, wl, deadline, replies, src, fetched, flightOf,
                   blockedAtStart, overAtStart, dropped, pin, pout, idxValueOf,
                   started>>

NextLocks ==
    \/ \E i \in Handlers : HandlerBegin(i)
    \/ PendingSweepBegin
    \/ CacheSweepBegin
    \/ ReloadBegin
    \/ \E t \in Tasks : Enter(t)
    \/ \E t \in Tasks : Acquire(t)
    \/ \E t \in Tasks : Release(t)

SpecLocks == InitLocks /\ [][NextLocks]_vars

Holds(t, l) == \E h \in held[t] : h[1] = l

(* The lock task t is about to acquire, "" when it is not acquiring *)
Acquiring(t) ==
    IF prog[t] # <<>> /\ Head(prog[t])[1] \in {"Lock", "RLock"}
    THEN Head(prog[t])[2] ELSE ""

(* C19: no task holds pendingMu and cacheMu together; no task acquires
   cacheMu while it holds the mu of a PendingRequest; the mu of a
   PendingRequest is acquired with no lock held or with pendingMu alone, and
   pendingMu is never acquired under it; and whenever a task has lock
   operations left, some task can take its next step. *)
C19_LockDiscipline ==
    /\ \A t \in Tasks :
          /\ ~(Holds(t, "pendingMu") /\ Holds(t, "cacheMu"))
          /\ Acquiring(t) = "cacheMu" => ~Holds(t, "pending.mu")
          /\ Acquiring(t) = "pending.mu" => \A h \in held[t] : h[1] = "pendingMu"
          /\ Acquiring(t) = "pendingMu" => ~Holds(t, "pending.mu")
    /\ (\E t \in Tasks : prog[t] # <<>>) =>
          \E t \in Tasks :
              /\ prog[t] # <<>>
              /\ Head(prog[t])[1] \in {"Lock", "RLock"} => CanAcquire(t, Head(prog[t]))

(* C19 witness: the sweeper holds pendingMu and the mu of an entry, a leader
   waits for that entry's mu, and another handler holds cacheMu. *)
C19_Witness ==
    /\ Holds(PendingSweeper, "pendingMu")
    /\ Holds(PendingSweeper, "pending.mu")
    /\ \E i \in Handlers :
          /\ Acquiring(i) = "pending.mu"
          /\ ~CanAcquire(i, Head(prog[i]))
    /\ \E i \in Handlers : Holds(i, "cacheMu")

----------------------------------------------------------------------------
(* Map-form overwrites (config.go): the ips list of the configuration is
   parsed into an entry, and getOverwrite is asked for a client.  An item of
   the list is <<"ip", a>>, the text of address a, or <<"text", 0>>, a string
   that is no address. *)

(* net.ParseIP *)
ParseIP(item) == IF item[1] = "ip" THEN item[2] ELSE NoIP

(* parseOverwriteIPs: [firstIP, ipList, err] *)
parseOverwriteIPs(ips) ==
    IF Len(ips) = 0
    THEN [firstIP |-> <<"text", 0>>, ipList |-> {}, err |-> TRUE]
    ELSE [firstIP |-> ips[1],
          ipList  |-> {ParseIP(ips[k]) : k \in 1..Len(ips)} \ {NoIP},
          err     |-> FALSE]

(* parseOverwriteFromMap: [entry, err] *)
parseOverwriteFromMap(ips, subnets) ==
    LET parsed == parseOverwriteIPs(ips)
    IN  [entry |-> [IP |-> parsed.firstIP, IPs |-> parsed.ipList,
                    Subnets |-> subnets],
         err   |-> parsed.err]

OverwriteItems == {<<"ip", a>> : a \in AllIPs} \cup {<<"text", 0>>}

OverwriteLists ==
    UNION {[1..n -> OverwriteItems] : n \in 0..MaxIPs}

OverwriteInputs ==
    [op : {"overwrite"}, ips : OverwriteLists, subnets : SUBSET PolicySubnets,
     clientIP : PolicyClients]

InitOverwrite ==
    /\ InitServer
    /\ config = [CacheTTL |-> 7, NegativeCacheTTL |-> 7]
    /\ maxCacheSize = 0
    /\ nameservers = <<"udp">>
    /\ pin \in OverwriteInputs

(* parseOverwrites of a configuration whose only overwrite is the map-form
   entry of pin for the name "o" *)
LoadOverwrite ==
    /\ pout = NoOp
    /\ LET parsed == parseOverwriteFromMap(pin.ips, pin.subnets)
       IN  IF parsed.err
           THEN /\ pout' = [op |-> "error"]
                /\ UNCHANGED overwrites
           ELSE /\ pout' = [op |-> "loaded"]
                /\ overwrites' = [k \in {<<"o">>} |-> parsed.entry]
    /\ UNCHANGED <<config, maxCacheSize, nameservers, blocked, cache,
                   pendingRequests, waiters, chan, nameserverIdx, domainCache, now, pc,
                   req, resp, pend, wl, deadline, replies, src, fetched, flightOf,
                   blockedAtStart, overAtStart, dropped, pin, idxValueOf, started,
                   held, prog>>

(* getOverwrite("o", clientIP) *)
QueryOverwrite ==
    /\ pout.op = "loaded"
    /\ pout' = [op |-> "getOverwrite", res |-> getOverwrite(overwrites, <<"o">>, pin.clientIP)]
    /\ UNCHANGED <<config, maxCacheSize, nameservers, blocked, overwrites, cache,
                   pendingRequests, waiters, chan, nameserverIdx, domainCache, now, pc,
                   req, resp, pend, wl, deadline, replies, src, fetched, flightOf,
                   blockedAtStart, overAtStart, dropped, pin, idxValueOf, started,
                   held, prog>>

NextOverwrite ==
    \/ LoadOverwrite
    \/ QueryOverwrite

SpecOverwrite == InitOverwrite /\ [][NextOverwrite]_vars

(* The client addresses of an ips list: the parsed items after the first *)
ListedClients(ips) ==
    {ParseIP(ips[k]) : k \in 2..Len(ips)} \ {NoIP}

(* C20: for the ips list [r, c1, ..., cn] and the listed subnets, a client
   receives the overwrite iff there are neither client IPs nor subnets, or
   its address is one of c1..cn or lies in a listed subnet; the address it
   receives is r. *)
C20_FirstIPIsAnswerOnly ==
    pout.op = "getOverwrite" =>
        LET clients == ListedClients(pin.ips)
            matches == \/ clients = {} /\ pin.subnets = {}
                       \/ /\ pin.clientIP # NoIP
                          /\ \/ pin.clientIP \in clients
                             \/ \E subnet \in pin.subnets :
                                    Contains(subnet, pin.clientIP)
        IN  /\ pout.res[2] <=> matches
            /\ pout.res[2] => pout.res[1] = pin.ips[1]

----------------------------------------------------------------------------
(* forward(Q) against one to three endpoints, for every starting index and
   every way the endpoints may behave: error, no message, an answer, an
   answer to another question, a message without question, a cut answer. *)

AttemptNameservers == {<<"udp">>, <<"udp", "tcp">>, <<"udp", "tcp", "udp">>}

(* A message whose question section is empty *)
NoQuestionMsg ==
    Msg(<<"first", 0>>, 1, <<>>, TRUE, FALSE, FALSE, FALSE, RcodeSuccess,
        <<RR("A", 3, 0, "full")>>, <<>>)

AttemptOutcomes ==
    TruncOutcomes \cup {NoRetry(FALSE, NoQuestionMsg)}

InitAttempts ==
    /\ InitServer
    /\ config = [CacheTTL |-> 7, NegativeCacheTTL |-> 7]
    /\ maxCacheSize = 0
    /\ nameservers \in AttemptNameservers
    /\ pin \in {[op |-> "forward",
                  outs |-> [k \in 1..Len(nameservers) |-> FromEndpoint(f[k], k)]] :
                   f \in [1..Len(nameservers) -> AttemptOutcomes]}

(* forwardDirectInternal(r, domain) *)
ForwardOnce ==
    /\ nameserverIdx < MaxForwards
    /\ LET r  == TruncQuery
           dc == Intern(domainCache, NameAB)
           n  == AddUint64(nameserverIdx, 1)
       IN  /\ nameserverIdx' = n
           /\ pout' = [op |-> "attempts", idxValue |-> n - 1,
                       res |-> forwardDirectInternal(dc, nameservers, n - 1, r,
                                                     pin.outs),
                       contacted |-> ContactedFrom(dc, nameservers, r, pin.outs,
                                                   startIdx(nameservers, n - 1), 0)]
           /\ domainCache' = dc
    /\ UNCHANGED <<config, maxCacheSize, nameservers, blocked, overwrites, cache,
                   pendingRequests, waiters, chan, now, pc, req, resp, pend, wl,
                   deadline, replies, src, fetched, flightOf, blockedAtStart,
                   overAtStart, dropped, pin, idxValueOf, started, held, prog>>

NextAttempts == ForwardOnce

SpecAttempts == InitAttempts /\ [][NextAttempts]_vars

(* The failures the forwarder must recognise in the first exchange *)
FirstExchangeFails(out, r) ==
    \/ out.err
    \/ out.resp = NoMsg
    \/ Len(out.resp.Question) = 0
    \/ ~Answers(out.resp, r)

(* C21: forward contacts the endpoints in the order s, s+1, ... (mod N) from
   the starting index s, each at most once; it stops at the first endpoint
   whose attempt yields a valid response and returns that response; it
   returns no message only after all N endpoints failed; an endpoint whose
   handler gives an error, no message, a message without question or one for
   another question is a failure; the message returned passes validation. *)
C21_AttemptOrder ==
    pout.op = "attempts" =>
        LET n   == Len(nameservers)
            s   == pout.idxValue % n
            c   == pout.contacted
            got == [k \in 1..n |->
                       AttemptResult(nameservers[k], pin.outs[k], TruncQuery)]
        IN  /\ Len(c) >= 1 /\ Len(c) <= n
            /\ \A k \in 1..Len(c) : c[k] = (s + k - 1) % n
            /\ \A k \in 1..(Len(c) - 1) : got[c[k] + 1] = NoMsg
            /\ \A k \in 1..n : FirstExchangeFails(pin.outs[k], TruncQuery) =>
                                   got[k] = NoMsg
            /\ IF pout.res = NoMsg
               THEN Len(c) = n /\ \A k \in 1..n : got[k] = NoMsg
               ELSE /\ pout.res = got[c[Len(c)] + 1]
                    /\ Answers(pout.res, TruncQuery)

(* C21 witness: three endpoints, starting index 2; endpoint 2 gives a message
   without question, endpoint 0 an answer to another question, endpoint 1 the
   answer, which is returned after the wrap. *)
C21_Witness ==
    /\ pout.op = "attempts"
    /\ Len(nameservers) = 3
    /\ pout.idxValue % 3 = 2
    /\ pout.contacted = <<2, 0, 1>>
    /\ pin.outs[3].resp # NoMsg /\ Len(pin.outs[3].resp.Question) = 0
    /\ pin.outs[1].resp # NoMsg /\ ~Answers(pin.outs[1].resp, TruncQuery)
    /\ pout.res # NoMsg
    /\ pout.res = pin.outs[2].resp

----------------------------------------------------------------------------
(* Claims about the TTL of stored entries (SpecCache) *)

(* The smallest of x and the header TTLs of the records ns *)
MinWithTTLs(x, ns) ==
    LET all == {x} \cup {ns[k].Ttl : k \in 1..Len(ns)}
    IN  CHOOSE v \in all : \A w \in all : v <= w

(* The reference TTL of a negative response with Authority section ns *)
ReferenceNegativeTTL(negativeTTL, ns) ==
    IF SOAIndexes(ns) # {}
    THEN LET m == ns[FirstSOA(ns)].Minttl
         IN  IF m < negativeTTL THEN m ELSE negativeTTL
    ELSE MinWithTTLs(negativeTTL, ns)

(* C22: the TTL with which a negative response is stored is the reference
   value: negative_ttl_s, replaced by the MINIMUM of the first SOA of the
   Authority section iff that is smaller; the header TTLs of the Authority
   records count only when there is no SOA; the response is stored iff the
   value is at least 1 s. *)
C22_NegativeTTLReference ==
    (pin.n > 0 /\ isNegativeResponse(pin.r)) =>
        LET ref == ReferenceNegativeTTL(config.NegativeCacheTTL, pin.r.Ns)
        IN  /\ pin.stored <=> ref >= 1
            /\ pin.stored => pin.exp - pin.t = ref

----------------------------------------------------------------------------
(* The TTL of positive entries on its own: one answer with one or two records
   of any TTL the record width allows is put under any positive cache_ttl up
   to one above that width. *)

TTLValues == 0..maxUint32

TTLInputs ==
    [op : {"ttl"}, ttls : UNION {[1..n -> TTLValues] : n \in 1..2}]

InitTTL ==
    /\ InitServer
    /\ config \in [CacheTTL : 1..(maxUint32 + 1), NegativeCacheTTL : {7}]
    /\ maxCacheSize = 0
    /\ nameservers = <<"udp">>
    /\ pin \in TTLInputs

(* The NOERROR response with one A record per TTL of pin *)
TTLResponse(q) ==
    Msg(<<"up", 1>>, q.Id, <<Question(ToLower(q.Question[1].Name), TypeA, ClassINET)>>,
        TRUE, FALSE, FALSE, FALSE, RcodeSuccess,
        [k \in 1..Len(pin.ttls) |-> RR("A", pin.ttls[k], 0, "up")], <<>>)

(* setCachedResponse(q, r) for that response *)
TTLPut ==
    /\ pout = NoOp
    /\ LET q   == CacheQuery(1, NameAB, TRUE, FALSE)
           r   == TTLResponse(q)
           key == getCacheKey(domainCache, q)
       IN  /\ \E c2 \in setCachedResponse(cache, domainCache, config, maxCacheSize, now,
                                          q, r, <<"put", 1>>) :
                 /\ cache' = c2
                 /\ pout' = [op |-> "ttlput", t |-> now, stored |-> key \in DOMAIN c2,
                             exp |-> IF key \in DOMAIN c2 THEN c2[key].ExpiresAt ELSE 0]
           /\ domainCache' = InternAll(domainCache, NamesOf(q, r))
    /\ UNCHANGED <<config, maxCacheSize, nameservers, blocked, overwrites,
                   pendingRequests, waiters, chan, nameserverIdx, now, pc, req, resp,
                   pend, wl, deadline, replies, src, fetched, flightOf, blockedAtStart,
                   overAtStart, dropped, pin, idxValueOf, started, held, prog>>

NextTTL == TTLPut

SpecTTL == InitTTL /\ [][NextTTL]_vars

(* C23: a NOERROR response with a non-empty Answer is stored with the TTL
   min(positive_ttl_s, smallest TTL of the Answer records), for every record
   TTL and every positive configured value, and is not stored when that value
   is below 1 s. *)
C23_PositiveTTLReference ==
    pout.op = "ttlput" =>
        LET ref == MinWithTTLs(config.CacheTTL, TTLResponse(CacheQuery(1, NameAB, TRUE, FALSE)).Answer)
        IN  /\ pout.stored <=> ref >= 1
            /\ pout.stored => pout.exp - pout.t = ref

----------------------------------------------------------------------------
(* Classification of what is put: responses of every RCODE from NOERROR to
   REFUSED, with and without an answer, are put under every combination of
   the two enable switches, while the caller writes to the response it holds
   and time passes. *)

ClassConfigs ==
    [CacheTTL : {0, 5}, NegativeCacheTTL : {0, 7}]

ClassRcodes == 0..5

ClassKinds ==
    [rcode : ClassRcodes, answer : {<<>>, <<RR("A", 3, 0, "up")>>}, ns : {<<>>}]

ClassQueries == {CacheQuery(1, NameAB, TRUE, FALSE), CacheQuery(3, NameO, TRUE, FALSE)}

InitClass ==
    /\ InitServer
    /\ config \in ClassConfigs
    /\ maxCacheSize = 0
    /\ nameservers = <<"udp">>
    /\ pin = [op |-> "put", n |-> 0]

NextClass ==
    \/ \E q \in ClassQueries, kind \in ClassKinds : CachePut(q, kind)
    \/ Mutate(1)
    \/ SweepCache
    \/ Tick

SpecClass == InitClass /\ [][NextClass]_vars

(* The classification of the specification *)
NegativeClassified(m) ==
    \/ m.Rcode \in {RcodeNameError, RcodeServerFailure, RcodeRefused, RcodeNotImplemented}
    \/ (m.Rcode = RcodeSuccess /\ Len(m.Answer) = 0)

(* C24: a response is put as negative iff its RCODE is NXDOMAIN, SERVFAIL,
   REFUSED or NOTIMP, or NOERROR with an empty Answer, and as positive
   otherwise (seen in the TTL it is stored with); the cache never holds a
   negative message when negative_ttl_s = 0, a positive one when
   positive_ttl_s = 0, or a message with another RCODE. *)
C24_Classification ==
    /\ (pin.n > 0 /\ pin.stored) =>
           pin.exp - pin.t = IF NegativeClassified(pin.r)
                             THEN config.NegativeCacheTTL
                             ELSE Min(config.CacheTTL, pin.r.Answer[1].Ttl)
    /\ \A key \in DOMAIN cache :
           LET m == cache[key].Message
           IN  /\ config.NegativeCacheTTL = 0 => ~NegativeClassified(m)
               /\ config.CacheTTL = 0 => NegativeClassified(m)
               /\ m.Rcode \in {RcodeSuccess, RcodeNameError, RcodeServerFailure,
                              RcodeRefused, RcodeNotImplemented}

(* C24 witness: with positive caching off, a REFUSED response with an answer
   is in the cache as a negative entry, after the caller has written to the
   response it put. *)
C24_Witness ==
    /\ config.CacheTTL = 0
    /\ pin.n > 0
    /\ pin.stored
    /\ pin.r.Rcode = RcodeRefused
    /\ Len(pin.r.Answer) > 0
    /\ pin.key \in DOMAIN cache
    /\ cache[pin.key].Message.Rcode = RcodeRefused
    /\ resp[1] # pin.r

----------------------------------------------------------------------------
(* The cache with room for one or two entries: up to three puts for three
   queries with two keys, answers and name errors with different TTLs, while
   time passes and the sweeper runs. *)

EvictSizes == {1, 2}

EvictKinds ==
    {[rcode |-> RcodeSuccess, answer |-> <<RR("A", 3, 0, "up")>>, ns |-> <<>>],
     [rcode |-> RcodeNameError, answer |-> <<>>, ns |-> <<RR("SOA", 9, 4, "soa")>>],
     [rcode |-> RcodeNameError, answer |-> <<>>, ns |-> <<>>]}

InitEvict ==
    /\ InitServer
    /\ config = [CacheTTL |-> 5, NegativeCacheTTL |-> 7]
    /\ maxCacheSize \in EvictSizes
    /\ nameservers = <<"udp">>
    /\ pin = [op |-> "put", n |-> 0]

NextEvict ==
    \/ \E q \in CacheQueries, kind \in EvictKinds : CachePutWithin(q, kind, MaxOps + 1)
    \/ SweepCache
    \/ Tick

SpecEvict == InitEvict /\ [][NextEvict]_vars

(* C25: a put removes an entry only when its key is new and the cache is
   full, so that inserting would exceed max_entries; it then removes exactly
   one entry, one with the smallest expires_at; every other entry is left as
   it was. *)
C25_EvictOnlyOnOverflow ==
    [][pin'.n > pin.n =>
          LET key      == pin'.key
              removed  == DOMAIN cache \ DOMAIN cache'
              overflow == /\ pin'.stored
                          /\ key \notin DOMAIN cache
                          /\ Cardinality(DOMAIN cache) >= maxCacheSize
          IN  /\ removed # {} => overflow
              /\ Cardinality(removed) <= 1
              /\ \A k \in removed : \A k2 \in DOMAIN cache :
                     cache[k].ExpiresAt <= cache[k2].ExpiresAt
              /\ \A k \in DOMAIN cache' \ {key} :
                     k \in DOMAIN cache /\ cache'[k] = cache[k]]_vars

----------------------------------------------------------------------------
(* Claims about lookups and sweeps (SpecCache) *)

(* C26: a lookup returns a message iff the cache holds an entry for the key
   and now < expires_at, so none at now = expires_at; a lookup leaves the
   cache map as it is. *)
C26_GetStrictExpiry ==
    [][(pout' # pout /\ pout'.op = "get") =>
          LET key == pout'.key
          IN  /\ pout'.res # NoMsg <=>
                     (key \in DOMAIN cache /\ now < cache[key].ExpiresAt)
              /\ cache' = cache]_vars

----------------------------------------------------------------------------
(* The sweeper on its own: entries are put with a TTL of one tick, time
   passes in ticks, and cleanupExpiredCache runs at any moment at which the
   server has started it. *)

SweepConfigs ==
    {[CacheTTL |-> TickStep, NegativeCacheTTL |-> TickStep],
     [CacheTTL |-> 0, NegativeCacheTTL |-> TickStep]}

SweepKinds ==
    {[rcode |-> RcodeSuccess, answer |-> <<RR("A", 9, 0, "up")>>, ns |-> <<>>],
     [rcode |-> RcodeNameError, answer |-> <<>>, ns |-> <<RR("SOA", 9, 3, "soa")>>],
     [rcode |-> RcodeNameError, answer |-> <<>>, ns |-> <<>>]}

InitSweep ==
    /\ InitServer
    /\ config \in SweepConfigs
    /\ maxCacheSize = 0
    /\ nameservers = <<"udp">>
    /\ pin = [op |-> "put", n |-> 0]

(* startCacheCleanup's ticker fires: cleanupExpiredCache() *)
SweepOnce ==
    /\ config.CacheTTL > 0
    /\ cache' = cleanupExpiredCache(cache, now)
    /\ pout' = [op |-> "sweep", before |-> cache, after |-> cache', t |-> now]
    /\ UNCHANGED <<config, maxCacheSize, nameservers, blocked, overwrites,
                   pendingRequests, waiters, chan, nameserverIdx, domainCache, now, pc,
                   req, resp, pend, wl, deadline, replies, src, fetched, flightOf,
                   blockedAtStart, overAtStart, dropped, pin, idxValueOf, started,
                   held, prog>>

NextSweep ==
    \/ \E q \in CacheQueries, kind \in SweepKinds : CachePut(q, kind)
    \/ SweepOnce
    \/ Tick

SpecSweep == InitSweep /\ [][NextSweep]_vars

(* C27: a sweep removes every entry with expires_at <= now and no entry with
   expires_at > now, leaving the others as they were; the sweeper runs only
   when positive caching is on. *)
C27_SweepRemovesExpired ==
    pout.op = "sweep" =>
        /\ config.CacheTTL > 0
        /\ DOMAIN pout.after =
               {k \in DOMAIN pout.before : pout.before[k].ExpiresAt > pout.t}
        /\ \A k \in DOMAIN pout.after : pout.after[k] = pout.before[k]

----------------------------------------------------------------------------
(* Puts of responses that may not belong to the query: the response carries
   the query's question, no question, or a question with another name, type
   or class, and is put into a cache that may be full, with an interning map
   that block list lines may have filled. *)

ValidateQuestions(q) ==
    LET name  == ToLower(q.Question[1].Name)
        other == IF name = ToLower(NameO) THEN ToLower(NameAB) ELSE ToLower(NameO)
    IN  {<<>>,
         <<Question(name, TypeA, ClassINET)>>,
         <<Question(other, TypeA, ClassINET)>>,
         <<Question(name, TypeAAAA, ClassINET)>>,
         <<Question(name, TypeA, ClassINET + 2)>>}

ValidateResponse(q, question, o) ==
    Msg(o, q.Id, question, TRUE, FALSE, FALSE, FALSE, RcodeSuccess,
        <<RR("A", 3, 0, "up")>>, <<>>)

InitValidate ==
    /\ InitServer
    /\ config = [CacheTTL |-> 5, NegativeCacheTTL |-> 7]
    /\ maxCacheSize \in CacheSizes
    /\ nameservers = <<"udp">>
    /\ pin = [op |-> "put", n |-> 0]

(* setCachedResponse(q, r) *)
ValidatePut(q, question) ==
    /\ pin.n < MaxOps + 1
    /\ LET r == ValidateResponse(q, question, <<"up", pin.n + 1>>)
       IN  /\ \E c2 \in setCachedResponse(cache, domainCache, config, maxCacheSize, now,
                                          q, r, <<"put", pin.n + 1>>) :
                 /\ cache' = c2
                 /\ pout' = [op |-> "vput", q |-> q, r |-> r, before |-> cache,
                             after |-> c2]
           /\ domainCache' = InternAll(domainCache, NamesOf(q, r))
    /\ pin' = [op |-> "put", n |-> pin.n + 1]
    /\ UNCHANGED <<config, maxCacheSize, nameservers, blocked, overwrites,
                   pendingRequests, waiters, chan, nameserverIdx, now, pc, req, resp,
                   pend, wl, deadline, replies, src, fetched, flightOf, blockedAtStart,
                   overAtStart, dropped, idxValueOf, started, held, prog>>

NextValidate ==
    \/ \E q \in CacheQueries : \E question \in ValidateQuestions(q) :
          ValidatePut(q, question)
    \/ \E domain \in KeyListNames : ReloadBlock(domain, NoRestrictions)
    \/ Tick

SpecValidate == InitValidate /\ [][NextValidate]_vars

(* C28: a put whose response has no question, or a question whose normalized
   name, type or class is not the query's, leaves the cache map exactly as it
   was: nothing stored, nothing evicted. *)
C28_MismatchNotStored ==
    (pout.op = "vput" /\ ~Answers(pout.r, pout.q)) => pout.after = pout.before

(* C28 witness: the cache is full, and a cacheable response to a question of
   another type was put and left it as it was. *)
C28_Witness ==
    /\ pout.op = "vput"
    /\ maxCacheSize = 1
    /\ Cardinality(DOMAIN pout.before) = 1
    /\ Len(pout.r.Question) = 1
    /\ pout.r.Question[1].Qtype = TypeAAAA
    /\ pout.after = pout.before

----------------------------------------------------------------------------
(* Expiry of inserted entries: answers and name errors are put under a
   usual configuration and under one whose negative_ttl is beyond what a
   Duration holds. *)

ExpiryConfigs ==
    {[CacheTTL |-> 5, NegativeCacheTTL |-> 7],
     [CacheTTL |-> 5, NegativeCacheTTL |-> Pow2(TTLBits + 1) + 8]}

ExpiryKinds ==
    {[rcode |-> RcodeSuccess, answer |-> <<RR("A", 3, 0, "up")>>, ns |-> <<>>],
     [rcode |-> RcodeSuccess, answer |-> <<RR("A", 9, 0, "up")>>, ns |-> <<>>],
     [rcode |-> RcodeNameError, answer |-> <<>>, ns |-> <<RR("SOA", 9, 3, "soa")>>],
     [rcode |-> RcodeNameError, answer |-> <<>>, ns |-> <<>>]}

InitExpiry ==
    /\ InitServer
    /\ config \in ExpiryConfigs
    /\ maxCacheSize = 0
    /\ nameservers = <<"udp">>
    /\ pin = [op |-> "put", n |-> 0]

NextExpiry ==
    \/ \E q \in CacheQueries, kind \in ExpiryKinds : CachePut(q, kind)
    \/ SweepCache
    \/ Tick

SpecExpiry == InitExpiry /\ [][NextExpiry]_vars

(* C29: an entry is inserted with now < expires_at <= now + T, T being
   negative_ttl_s for a negative message and positive_ttl_s for a positive
   one, and the stored message has the RCODE, Answer and Authority of the
   response put. *)
C29_ExpiryWithinBound ==
    (pin.n > 0 /\ pin.stored) =>
        LET T == IF isNegativeResponse(pin.r) THEN config.NegativeCacheTTL
                                              ELSE config.CacheTTL
        IN  /\ pin.t < pin.exp
            /\ pin.exp <= pin.t + T
            /\ (pin.key \in DOMAIN cache /\ cache[pin.key].ExpiresAt = pin.exp) =>
                   /\ cache[pin.key].Message.Rcode = pin.r.Rcode
                   /\ cache[pin.key].Message.Answer = pin.r.Answer
                   /\ cache[pin.key].Message.Ns = pin.r.Ns

(***************************************************************************)
(* The follower's timeout branch against the leader's store                *)
(* (waitForPendingRequest, forward.go lines 223-236, on Spec)              *)
(***************************************************************************)

(* An entry of the cache a lookup at time t must serve *)
Unexpired(c, key, t) == key \in DOMAIN c /\ t < c[key].ExpiresAt

(* C30: a follower whose wait expired and that found an unexpired entry for
   its key replies from the cache and writes nothing, and a follower writes
   its synthesized NXDOMAIN only if the cache holds no unexpired entry for its
   key at the moment of the write: an unexpired entry is left as it is. *)
C30_FollowerNeverOverwrites ==
    [][\A i \in Handlers :
          /\ (pc[i] = "wwait" /\ pc'[i] = "done" /\ src'[i] = "cache")
                => cache' = cache
          /\ (pc[i] = "wput" /\ pc'[i] = "done"
                                /\ Unexpired(cache, KeyOf(i), now))
                => /\ KeyOf(i) \in DOMAIN cache'
                   /\ cache'[KeyOf(i)] = cache[KeyOf(i)]]_vars

(***************************************************************************)
(* Publication to followers (handleFirstRequest lines 193-208 against      *)
(* waitForPendingRequest lines 212-217, on Spec)                           *)
(***************************************************************************)

(* The leader of flight e has taken the waiter list of its entry *)
ListTaken(e) == pc[e] \in {"ldel", "done"}

(* Follower j holds the entry of a flight, has enqueued or is about to enqueue
   its channel, and nothing will be sent on it *)
LeftUndelivered(j) ==
    /\ pc[j] = "wwait"
    /\ chan[j] = NoMsg
    /\ flightOf[j] # NoEntry
    /\ ListTaken(flightOf[j])

(* C31: every follower that obtained the leader's entry from the registry and
   enqueued its channel on it is delivered the leader's outcome when the
   leader publishes: no follower is left waiting on a channel of an entry
   whose waiter list the leader has already taken. *)
C31_EveryFollowerDelivered == \A j \in Handlers : ~LeftUndelivered(j)

(***************************************************************************)
(* The leader's order of work (handleFirstRequest lines 154-209, on Spec)  *)
(***************************************************************************)

(* The steps of a leader, in the order of the function's statements *)
LeaderOrder ==
    {<<"lfetch", "lput">>, <<"lfetch", "lsend">>, <<"lput", "lsend">>,
     <<"lsend", "ldel">>, <<"ldel", "done">>}

(* The outcome written to the client of leader i is one setCachedResponse
   stores under the configuration *)
Cacheable(i) ==
    /\ Len(replies[i]) = 1
    /\ \A c2 \in setCachedResponse(EmptyMap, domainCache, config, maxCacheSize, now,
                                    req[i].r, replies[i][1], <<"put", i>>) :
          KeyOf(i) \in DOMAIN c2

(* Leader i forwarded, its outcome is cacheable and has neither expired nor
   been evicted *)
OutcomeKept(i) == fetched[i] /\ Cacheable(i) /\ KeyOf(i) \notin dropped

(* Leader i removes its registry slot in this step *)
Removes(i) == pc[i] = "ldel" /\ pc'[i] = "done"

(* Request j calls the upstream forwarder in this step *)
Forwards(j) == ~fetched[j] /\ fetched'[j]

(* C32: a leader forwards (or synthesizes NXDOMAIN), then stores the outcome,
   then writes to its own client and delivers to the followers, and removes
   the registry entry last; so at the removal the cache holds a cacheable
   outcome, and no request forwards for a key whose flight has ended with
   its outcome in the cache. *)
C32_LeaderOrder ==
    [][\A i \in Handlers :
          /\ (Leading(i) /\ pc'[i] # pc[i]) => <<pc[i], pc'[i]>> \in LeaderOrder
          /\ Forwards(i) => (pc[i] = "lfetch" /\ replies[i] = <<>>)
          /\ (pc[i] = "lput" /\ pc'[i] # pc[i]) => (fetched[i] /\ replies[i] = <<>>)
          /\ (Leading(i) /\ replies'[i] # replies[i])
                => (pc[i] = "lsend" /\ pc'[i] = "ldel")
          /\ Removes(i) => Len(replies[i]) = 1
          /\ (Removes(i) /\ OutcomeKept(i))
                => /\ KeyOf(i) \in DOMAIN cache
                   /\ Content(cache[KeyOf(i)].Message) = Content(replies[i][1])
          /\ Forwards(i)
                => ~\E l \in Handlers \ {i} :
                        Done(l) /\ OutcomeKept(l) /\ KeyOf(l) = KeyOf(i)]_vars

(***************************************************************************)
(* Writes to clients that fail (sendResponse, forward.go lines 259-270;    *)
(* handleDNSRequest, part_005 lines 15-20)                                 *)
(***************************************************************************)

(* The clients whose connection is broken are drawn at the start *)
InitWrite ==
    /\ InitServer
    /\ config \in MainConfigs
    /\ maxCacheSize = 0
    /\ nameservers = <<"udp">>
    /\ pin \in [op : {"writes"}, fail : SUBSET Handlers]

NextWrite ==
    \/ \E i \in Handlers : Step(i)
    \/ Tick

SpecWrite == InitWrite /\ [][NextWrite]_vars

(* Handler i's write to its client fails in this step *)
FailedWrite(i) ==
    /\ Len(replies'[i]) = Len(replies[i]) + 1
    /\ replies'[i][Len(replies'[i])] = WriteError

(* No registry slot holds the entry created by i *)
EntryRemoved(i, reg) == \A k \in DOMAIN reg : reg[k] # i

(* C33: a write to a client that fails changes nothing else.  When the
   leader's write fails the cache is unchanged, every enqueued follower that
   still waits is delivered the outcome, and the leader goes on to remove its
   registry entry; when the write of a follower or of a cache hit fails, the
   cache (but for the follower's own put before the write) and the registry
   are unchanged. *)
C33_FailedWriteChangesNothing ==
    [][\A i \in Handlers :
          /\ (FailedWrite(i) /\ pc[i] = "lsend")
                => /\ cache' = cache
                   /\ pendingRequests' = pendingRequests
                   /\ \A n \in 1..Len(waiters[pend[i]]) :
                         LET w == waiters[pend[i]][n]
                         IN  pc[w] = "wwait"
                                => /\ chan'[w] # NoMsg
                                   /\ chan'[w] # Closed
                                   /\ Content(chan'[w]) = Content(resp[i])
                   /\ pc'[i] = "ldel"
          /\ (WriteFails(i) /\ pc[i] # "done" /\ pc'[i] = "done" /\ pend[i] = i)
                => EntryRemoved(i, pendingRequests')
          /\ (FailedWrite(i) /\ pc[i] \in {"idle", "policy", "wwait"})
                => /\ cache' = cache
                   /\ pendingRequests' = pendingRequests
                   /\ waiters' = waiters
          /\ (FailedWrite(i) /\ pc[i] = "wput")
                => /\ cache' \in setCachedResponse(cache, domainCache, config,
                                                  maxCacheSize, now, req[i].r,
                                                  createNXDOMAINResponse(req[i].r,
                                                                         <<"nx", i>>),
                                                  <<"put", i>>)
                   /\ pendingRequests' = pendingRequests
                   /\ waiters' = waiters]_vars

(* A leader whose write failed has delivered its outcome to a follower and
   removed its entry *)
C33_Witness ==
    \E i, j \in Handlers :
        /\ Done(i) /\ replies[i] = <<WriteError>> /\ fetched[i]
        /\ Done(j) /\ flightOf[j] = i /\ src[j] = "delivered"
        /\ EntryRemoved(i, pendingRequests)

(***************************************************************************)
(* Growth of the deny policy (addBlockedDomain, blocks.go lines 252-268,   *)
(* on SpecPolicy)                                                          *)
(***************************************************************************)

(* C34: the deny policy only grows: a name that is blocked for a client stays
   blocked for that client after every load or refresh of a block list,
   whatever predicate the list carries (the name and the client are the
   drawn ones). *)
C34_DenyOnlyGrows ==
    [][(pin.op = "isBlocked" /\ isBlocked(blocked, pin.domain, pin.clientIP))
          => isBlocked(blocked', pin.domain, pin.clientIP)]_vars

(***************************************************************************)
(* Policy answers (handleDNSRequest, part_005 lines 25-57) for the IP      *)
(* strings parseOverwrites (config.go lines 201-240) accepts               *)
(***************************************************************************)

(* parseOverwrites accepts every non-empty string as the IP of an overwrite:
   an IPv4 address, an IPv6 address, any other text *)
LoadedIPStrings == {"v4", "v6", "text"}

InitLocal ==
    /\ \E ip \in LoadedIPStrings :
          InitServerWith([k \in {<<"o">>} |->
                             [IP |-> ip, IPs |-> {1}, Subnets |-> {}]])
    /\ config = [CacheTTL |-> 7, NegativeCacheTTL |-> 7]
    /\ maxCacheSize = 0
    /\ nameservers = <<"udp">>
    /\ pin = NoOp

NextLocal ==
    \/ \E i \in Handlers : Step(i)
    \/ ReloadBlock(<<"o">>, [IPs |-> {1}, Subnets |-> {}])
    \/ Tick

SpecLocal == InitLocal /\ [][NextLocal]_vars

(* The policy has an answer for the query of handler i *)
PolicyAnswers(i) == blockedAtStart[i] \/ overAtStart[i]

(* C35: a query the deny list or an override answers is answered locally: the
   reply is the synthesized one (NXDOMAIN with AA=1 when the deny list matches,
   whether or not an override matches too, else the override's A record, or
   the NXDOMAIN of a deny entry loaded since the query arrived), no
   upstream forward is made, no coalescer entry is created or joined and
   nothing is stored in the cache, for every IP string accepted at load. *)
(* The NXDOMAIN the deny list answers with *)
IsDenial(m) == m.Rcode = RcodeNameError /\ m.Authoritative

C35_PolicyAnswersLocal ==
    \A i \in Handlers :
        (pc[i] # "idle" /\ PolicyAnswers(i))
            => /\ pc[i] \in {"policy", "done"}
               /\ ~fetched[i]
               /\ pend[i] = NoEntry /\ flightOf[i] = NoEntry
               /\ Done(i) =>
                     LET domain == normalizeDomain(domainCache,
                                                   req[i].r.Question[1].Name)
                     IN  IF blockedAtStart[i]
                         THEN IsDenial(replies[i][1])
                         ELSE \/ IsOverride(replies[i][1], overwrites[domain].IP)
                              \/ /\ isBlocked(blocked, domain, req[i].clientIP)
                                 /\ IsDenial(replies[i][1])

(***************************************************************************)
(* Life of a registry entry (forwardRequest lines 134-146,                 *)
(* handleFirstRequest lines 205-208, on FairSpec)                          *)
(***************************************************************************)

(* No request is between its arrival and its reply *)
Quiescent == \A i \in Handlers : pc[i] \in {"idle", "done"}

(* The registry changes by one slot at a time: a key that was absent gets the
   entry of the request that takes the leader's role in the same step, or a
   key that was present becomes absent *)
RegistryStep ==
    \/ \E i \in Handlers :
          /\ pc[i] = "begin" /\ pc'[i] = "lfetch"
          /\ KeyOf(i) \notin DOMAIN pendingRequests
          /\ pendingRequests' = MapPut(pendingRequests, KeyOf(i), i)
    \/ \E k \in DOMAIN pendingRequests : pendingRequests' = MapDel(pendingRequests, k)

(* C36: the state of a key moves only from absent to leading and back; a slot
   holds the entry of a request that is in the leader's role; every entry is
   removed in the end, so that the registry is empty when no request is in
   flight. *)
C36_Lifecycle ==
    /\ [][pendingRequests' # pendingRequests => RegistryStep]_vars
    /\ [](\A k \in DOMAIN pendingRequests : Leading(pendingRequests[k]))
    /\ [](Quiescent => pendingRequests = EmptyMap)
    /\ \A i \in Handlers :
          (pc[i] = "lfetch") ~> EntryRemoved(i, pendingRequests)

(* Two flights for one key have come and gone, the second after the first *)
C36_Witness ==
    /\ \A i \in Handlers : Done(i) /\ pend[i] = NoEntry
    /\ \E i, j \in Handlers : i # j /\ KeyOf(i) = KeyOf(j)
                               /\ src[i] \in {"upstream", "synth"}
                               /\ src[j] \in {"upstream", "synth", "delivered"}
    /\ pendingRequests = EmptyMap

(***************************************************************************)
(* Whose entry the leader deletes (handleFirstRequest lines 205-208        *)
(* against cleanupStalePendingRequests, server.go lines 182-194, on Spec)  *)
(***************************************************************************)

(* C37: a leader that finishes removes from the registry only the entry it
   created, never the entry another leader, still in flight, created for the
   same key. *)
C37_LeaderRemovesOwnEntry ==
    [][\A i \in Handlers :
          Removes(i)
              => \A k \in DOMAIN pendingRequests \ DOMAIN pendingRequests' :
                    pendingRequests[k] = i]_vars

(***************************************************************************)
(* The interning map of normalizeDomain (part_002 lines 48-74) under two   *)
(* calls with different inputs                                             *)
(***************************************************************************)

InternAlphabet == {"a", "."}

InternInputs == Strings(InternAlphabet, MaxLen)

InitIntern ==
    /\ InitServer
    /\ config = [CacheTTL |-> 7, NegativeCacheTTL |-> 7]
    /\ maxCacheSize = 0
    /\ nameservers = <<"udp">>
    /\ pin \in [op : {"intern"}, x1 : InternInputs, x2 : InternInputs]

(* normalizeDomain(x1) in a fresh process *)
InternFirst ==
    /\ pout = NoOp
    /\ pout' = [op |-> "intern", n |-> 1,
                y1 |-> normalizeDomain(domainCache, pin.x1), y2 |-> <<>>]
    /\ domainCache' = Intern(domainCache, pin.x1)
    /\ UNCHANGED <<config, maxCacheSize, nameservers, blocked, overwrites, cache,
                   pendingRequests, waiters, chan, nameserverIdx, now, pc, req, resp,
                   pend, wl, deadline, replies, src, fetched, flightOf,
                   blockedAtStart, overAtStart, dropped, pin, idxValueOf, started,
                   held, prog>>

(* normalizeDomain(x2) after it *)
InternSecond ==
    /\ pout.op = "intern"
    /\ pout.n = 1
    /\ pout' = [pout EXCEPT !.n = 2, !.y2 = normalizeDomain(domainCache, pin.x2)]
    /\ domainCache' = Intern(domainCache, pin.x2)
    /\ UNCHANGED <<config, maxCacheSize, nameservers, blocked, overwrites, cache,
                   pendingRequests, waiters, chan, nameserverIdx, now, pc, req, resp,
                   pend, wl, deadline, replies, src, fetched, flightOf,
                   blockedAtStart, overAtStart, dropped, pin, idxValueOf, started,
                   held, prog>>

NextIntern == InternFirst \/ InternSecond

SpecIntern == InitIntern /\ [][NextIntern]_vars

(* C38: interning is transparent: after a call of normalizeDomain on another
   input, normalizeDomain(x) returns what it returns in a fresh process. *)
C38_InterningTransparent ==
    (pout.op = "intern" /\ pout.n = 2 /\ pin.x1 # pin.x2)
        => pout.y2 = normalizeDomain(EmptyMap, pin.x2)

(***************************************************************************)
(* Fingerprints that must not meet (getCacheKey, cache.go lines 12-18,     *)
(* setCachedResponse and getCachedResponse): a put for one query, block    *)
(* lists loaded, then a lookup for another query                           *)
(***************************************************************************)

ClassCHAOS == 3

(* Names as they come off the wire (fully qualified, one trailing dot); one
   has a colon and a digit in it, as the key's separators and numbers are *)
CrossNames == {NameAB, NameAB2, <<"b", ".">>, <<"b", ":", "1", ".">>}

CrossQueries ==
    {Msg(<<"q", 0>>, 1, <<Question(name, qtype, qclass)>>, TRUE, FALSE,
         FALSE, FALSE, RcodeSuccess, <<>>, <<>>) :
        name \in CrossNames, qtype \in {TypeA, TypeAAAA},
        qclass \in {ClassINET, ClassCHAOS}}

(* Lines of a block list: a.b.., b.. and b *)
CrossListNames == KeyListNames \cup {<<"b", ".", ".">>}

InitCross ==
    /\ InitServer
    /\ config = [CacheTTL |-> 7, NegativeCacheTTL |-> 7]
    /\ maxCacheSize = 0
    /\ nameservers = <<"udp">>
    /\ pin \in [op : {"cross"}, q1 : CrossQueries, q2 : CrossQueries]

(* The upstream answer to query q *)
CrossAnswer(q) ==
    Msg(<<"up", 1>>, q.Id,
        <<Question(ToLower(q.Question[1].Name), q.Question[1].Qtype,
                   q.Question[1].Qclass)>>,
        TRUE, FALSE, FALSE, FALSE, RcodeSuccess, <<RR("A", 3, 0, "up")>>, <<>>)

(* setCachedResponse(q1, answer) *)
CrossPut ==
    /\ pout = NoOp
    /\ \E c2 \in setCachedResponse(cache, domainCache, config, maxCacheSize, now,
                                   pin.q1, CrossAnswer(pin.q1), <<"put", 1>>) :
          cache' = c2
    /\ pout' = [op |-> "cross", n |-> 1, k1 |-> getCacheKey(domainCache, pin.q1),
                k2 |-> <<>>, res |-> NoMsg]
    /\ domainCache' = InternAll(domainCache, NamesOf(pin.q1, CrossAnswer(pin.q1)))
    /\ UNCHANGED <<config, maxCacheSize, nameservers, blocked, overwrites,
                   pendingRequests, waiters, chan, nameserverIdx, now, pc, req, resp,
                   pend, wl, deadline, replies, src, fetched, flightOf,
                   blockedAtStart, overAtStart, dropped, pin, idxValueOf, started,
                   held, prog>>

(* getCachedResponse(q2), and the key under which forwardRequest would look
   for a coalescer entry *)
CrossGet ==
    /\ pout.op = "cross"
    /\ pout.n = 1
    /\ pout' = [pout EXCEPT !.n = 2,
                            !.k2 = getCacheKey(domainCache, pin.q2),
                            !.res = getCachedResponse(cache, domainCache, config, now,
                                                      pin.q2, <<"hit", 0>>)]
    /\ domainCache' = InternAll(domainCache, NamesOf(pin.q2, NoMsg))
    /\ UNCHANGED <<config, maxCacheSize, nameservers, blocked, overwrites, cache,
                   pendingRequests, waiters, chan, nameserverIdx, now, pc, req, resp,
                   pend, wl, deadline, replies, src, fetched, flightOf,
                   blockedAtStart, overAtStart, dropped, pin, idxValueOf, started,
                   held, prog>>

(* A block list is loaded, before the put or between the put and the lookup *)
CrossLoad(domain) ==
    /\ IF pout.op = "cross" THEN pout.n = 1 ELSE TRUE
    /\ ReloadBlock(domain, NoRestrictions)

NextCross ==
    \/ CrossPut
    \/ CrossGet
    \/ \E domain \in CrossListNames : CrossLoad(domain)

SpecCross == InitCross /\ [][NextCross]_vars

(* C39: a lookup is served only what a put for the same fingerprint stored:
   two queries that differ in the normalized name, the type or the class get
   different keys, for the cache and for the coalescer alike, and the one is
   never served the other's entry. *)
C39_NoCrossing ==
    (pout.op = "cross" /\ pout.n = 2 /\ ~SameQuestion(pin.q1, pin.q2))
        => /\ pout.k1 # pout.k2
           /\ pout.res = NoMsg

(* With an entry stored for q1 and the block list line a.b.. interned, a
   lookup that differs from q1 in the class only has been made *)
C39_Witness ==
    /\ pout.op = "cross" /\ pout.n = 2
    /\ pout.k1 \in DOMAIN cache
    /\ NameAB \in DOMAIN domainCache /\ domainCache[NameAB] = NameAB
    /\ ~SameQuestion(pin.q1, pin.q2)
    /\ Normalized(pin.q1.Question[1].Name) = Normalized(pin.q2.Question[1].Name)
    /\ pin.q1.Question[1].Qtype = pin.q2.Question[1].Qtype

====
